---- MODULE Spec2Model ----
(***************************************************************************)
(* A model of the facet-json deserializer and serializer                   *)
(* (src/src/deserialize.rs, src/src/serialize.rs).                         *)
(*                                                                         *)
(* The input text is a sequence of lexemes (the byte runs the tokenizer    *)
(* turns into one token each) with their byte lengths, so that spans are   *)
(* byte offsets.  Option<T> is modelled as a sequence of length 0 or 1.    *)
(* The recursive-descent functions are RECURSIVE operators that return a   *)
(* record  [res, pos, ops, val, err]:  the outcome, the index of the next  *)
(* unconsumed token, the builder calls issued, the value built in the      *)
(* current builder frame, and the error.                                   *)
(*                                                                         *)
(* Integer widths are scaled: a type of 1, 2, 4, 8, 16 bytes has 2, 3, 4,  *)
(* 5, 7 bits.  The order of the ranges (i8 < i16 < i32 < i64 < u64 < i128  *)
(* < u128) and the wrap-around of `as` casts are those of the real types.  *)
(***************************************************************************)
EXTENDS Integers, Sequences, FiniteSets, TLC

\* shape    : the shape of T, the type the caller asks for
\* text     : the input, a sequence of pieces, each a sequence of lexemes
\* original : the value given to to_string when the text comes from it
\* entry    : the entry point that ran
\* pc       : "input" while the text is being written, "done" after a call
\* ret      : what the call returned
\* offered  : the token offered to deserialize_scalar
\* sk       : the state of a skip_value call that runs step by step
VARIABLES shape, text, original, entry, pc, ret, offered, sk, de

vars == <<shape, text, original, entry, pc, ret, offered, sk, de>>

(***************************************************************************)
(* Bounds of the model                                                     *)
(***************************************************************************)
\* pieces in a text that is written piece by piece
MaxLen == 5

\* reads of Eof by one skip_value call that the step machine follows
MaxEofReads == 2

\* tokens in the input of a skip_value call that runs step by step
MaxSkipLen == 4

\* calls of peek() and next() on one deserializer, and lexemes of its input
MaxCalls == 5

MaxPeekLen == 3

\* the whole part of a float token is in -MaxFloat .. MaxFloat
MaxFloat == 40

(***************************************************************************)
(* Option, Span                                                            *)
(***************************************************************************)
None == <<>>

Some(x) == <<x>>

Span(start, len) == [start |-> start, len |-> len]

SpanEnd(s) == s.start + s.len

RECURSIVE Pow2(_)
Pow2(w) == IF w = 0 THEN 1 ELSE 2 * Pow2(w - 1)

Max2(a, b) == IF a >= b THEN a ELSE b

Min2(a, b) == IF a <= b THEN a ELSE b

(***************************************************************************)
(* Integer types: layout size in bytes -> width in bits (scaled)           *)
(***************************************************************************)
Width(size) ==
    CASE size = 1 -> 2
      [] size = 2 -> 3
      [] size = 4 -> 4
      [] size = 8 -> 5
      [] size = 16 -> 7

IntSizes == {1, 2, 4, 8, 16}

IntMin(signed, size) == IF signed THEN 0 - Pow2(Width(size) - 1) ELSE 0

IntMax(signed, size) ==
    IF signed THEN Pow2(Width(size) - 1) - 1 ELSE Pow2(Width(size)) - 1

InRange(n, signed, size) == IntMin(signed, size) <= n /\ n <= IntMax(signed, size)

\* u64 -> i64 and the like: `n as i64` reinterprets the bits
AsSigned(n, size) ==
    IF n > IntMax(TRUE, size) THEN n - Pow2(Width(size)) ELSE n

\* f64 -> i64 / u64: `n as i64` saturates at the bounds of the target
Saturate(n, signed, size) ==
    Max2(IntMin(signed, size), Min2(n, IntMax(signed, size)))

(***************************************************************************)
(* Shapes                                                                  *)
(***************************************************************************)
IntShape(signed, size) ==
    [k |-> "scalar", ty |-> "int", signed |-> signed, size |-> size]

FloatShape(size) == [k |-> "scalar", ty |-> "float", signed |-> TRUE, size |-> size]

BoolShape == [k |-> "scalar", ty |-> "bool", signed |-> FALSE, size |-> 1]

StringShape == [k |-> "scalar", ty |-> "String", signed |-> FALSE, size |-> 24]

CowShape == [k |-> "scalar", ty |-> "Cow", signed |-> FALSE, size |-> 24]

TypeIdentifier(sh) ==
    IF sh.k = "scalar" /\ sh.ty = "int"
    THEN CASE sh.size = 1 -> IF sh.signed THEN "i8" ELSE "u8"
           [] sh.size = 2 -> IF sh.signed THEN "i16" ELSE "u16"
           [] sh.size = 4 -> IF sh.signed THEN "i32" ELSE "u32"
           [] sh.size = 8 -> IF sh.signed THEN "i64" ELSE "u64"
           [] sh.size = 16 -> IF sh.signed THEN "i128" ELSE "u128"
    ELSE IF sh.k = "scalar" /\ sh.ty = "float"
    THEN (IF sh.size = 4 THEN "f32" ELSE "f64")
    ELSE IF sh.k = "scalar" THEN sh.ty
    ELSE sh.k

(***************************************************************************)
(* Values                                                                  *)
(***************************************************************************)
IntVal(n) == [t |-> "int", n |-> n]

FloatVal(n, frac) == [t |-> "float", n |-> n, frac |-> frac]

BoolVal(b) == [t |-> "bool", b |-> b]

StrVal(s, borrowed) == [t |-> "str", s |-> s, borrowed |-> borrowed]

NoVal == [t |-> "unset"]

(***************************************************************************)
(* JsonError                                                               *)
(***************************************************************************)
\* The fields of JsonError and of the JsonErrorKind variants the model
\* distinguishes: `what` holds expected / target_type / message / field.
JsonError(kind, what, span) ==
    [kind |-> kind, what |-> what, span |-> span, source_code |-> None,
     object_start |-> None, object_end |-> None, expected |-> <<>>,
     suggestion |-> None]

JsonError_new(kind, what, span) == JsonError(kind, what, Some(span))

without_span(kind, what) == JsonError(kind, what, None)

\* impl From<ReflectError> for JsonError
FromReflectError(what) == JsonError("Reflect", what, None)

\* impl From<TokenError> for JsonError
FromTokenError(what, span) == JsonError("Token", what, Some(span))

NoError == JsonError("", "", None)

(***************************************************************************)
(* Results of the deserializer's functions                                 *)
(***************************************************************************)
Ok(pos, ops, val) ==
    [res |-> "ok", pos |-> pos, ops |-> ops, val |-> val, err |-> NoError]

Err(pos, ops, e) ==
    [res |-> "err", pos |-> pos, ops |-> ops, val |-> NoVal, err |-> e]

Hang(pos, ops) ==
    [res |-> "hang", pos |-> pos, ops |-> ops, val |-> NoVal, err |-> NoError]

\* `r?` followed by more builder calls: prefix the calls already issued
WithOps(ops, r) == [r EXCEPT !.ops = ops \o r.ops]

(***************************************************************************)
(* Partial::set with a concrete Rust type: the builder rejects a value     *)
(* whose type is not the frame's shape.                                    *)
(***************************************************************************)
wip_set_int(sh, signed, size, n, pos) ==
    IF sh.k = "scalar" /\ sh.ty = "int" /\ sh.signed = signed /\ sh.size = size
    THEN Ok(pos, <<"set">>, IntVal(n))
    ELSE Err(pos - 1, <<"set">>, FromReflectError("WrongShape"))

wip_set_float(sh, size, n, frac, pos) ==
    IF sh.k = "scalar" /\ sh.ty = "float" /\ sh.size = size
    THEN Ok(pos, <<"set">>, FloatVal(n, frac))
    ELSE Err(pos - 1, <<"set">>, FromReflectError("WrongShape"))

(***************************************************************************)
(* set_number_*                                                            *)
(***************************************************************************)
IsSized(sh) == sh.k # "slice" /\ sh.k # "str"

LayoutSize(sh) == IF sh.k = "scalar" THEN sh.size ELSE 24

NumericTy(sh) ==
    IF sh.k = "scalar" /\ sh.ty = "int" THEN (IF sh.signed THEN "sint" ELSE "uint")
    ELSE IF sh.k = "scalar" /\ sh.ty = "float" THEN "float"
    ELSE "other"

set_number_u64_unsigned(sh, n, span, pos) ==
    LET size == LayoutSize(sh) IN
    IF size \in {1, 2, 4}
    THEN IF InRange(n, FALSE, size)
         THEN wip_set_int(sh, FALSE, size, n, pos)
         ELSE Err(pos - 1, <<>>, JsonError_new("NumberOutOfRange", TypeIdentifier(sh), span))
    ELSE IF size = 8 THEN wip_set_int(sh, FALSE, 8, n, pos)
    ELSE IF size = 16 THEN wip_set_int(sh, FALSE, 16, n, pos)
    ELSE Err(pos - 1, <<>>, JsonError_new("InvalidValue", "unexpected integer size", span))

set_number_float(sh, n, span, pos) ==
    LET size == LayoutSize(sh) IN
    IF size \in {4, 8}
    THEN wip_set_float(sh, size, n, FALSE, pos)
    ELSE Err(pos - 1, <<>>, JsonError_new("InvalidValue", "unexpected float size", span))

set_number_i64_signed(sh, n, span, pos) ==
    LET size == LayoutSize(sh) IN
    IF size \in {1, 2, 4}
    THEN IF InRange(n, TRUE, size)
         THEN wip_set_int(sh, TRUE, size, n, pos)
         ELSE Err(pos - 1, <<>>, JsonError_new("NumberOutOfRange", TypeIdentifier(sh), span))
    ELSE IF size = 8 THEN wip_set_int(sh, TRUE, 8, n, pos)
    ELSE IF size = 16 THEN wip_set_int(sh, TRUE, 16, n, pos)
    ELSE Err(pos - 1, <<>>, JsonError_new("InvalidValue", "unexpected integer size", span))

\* n is an i64; called from the I64 token, from set_number_u64 (n as i64),
\* from set_number_i128 and from set_number_f64
set_number_i64(sh, n, span, pos) ==
    IF ~IsSized(sh)
    THEN Err(pos - 1, <<>>, JsonError_new("InvalidValue", "unsized integer", span))
    ELSE CASE NumericTy(sh) = "sint" -> set_number_i64_signed(sh, n, span, pos)
           [] NumericTy(sh) = "uint" ->
                IF n < 0
                THEN Err(pos - 1, <<>>,
                         JsonError_new("NumberOutOfRange", TypeIdentifier(sh), span))
                ELSE set_number_u64_unsigned(sh, n, span, pos)
           [] NumericTy(sh) = "float" -> set_number_float(sh, n, span, pos)
           [] OTHER ->
                Err(pos - 1, <<>>, JsonError_new("TypeMismatch", "integer", span))

\* n is a u64
set_number_u64(sh, n, span, pos) ==
    IF ~IsSized(sh)
    THEN Err(pos - 1, <<>>, JsonError_new("InvalidValue", "unsized integer", span))
    ELSE CASE NumericTy(sh) = "uint" -> set_number_u64_unsigned(sh, n, span, pos)
           [] NumericTy(sh) = "sint" ->
                \* "Convert unsigned to signed if it fits": n as i64
                set_number_i64(sh, AsSigned(n, 8), span, pos)
           [] NumericTy(sh) = "float" -> set_number_float(sh, n, span, pos)
           [] OTHER ->
                Err(pos - 1, <<>>, JsonError_new("TypeMismatch", "unsigned integer", span))

\* n is an i128
set_number_i128(sh, n, span, pos) ==
    IF ~IsSized(sh)
    THEN Err(pos - 1, <<>>, JsonError_new("InvalidValue", "unsized integer", span))
    ELSE IF LayoutSize(sh) = 16
    THEN wip_set_int(sh, TRUE, 16, n, pos)
    ELSE IF InRange(n, TRUE, 8)
    THEN set_number_i64(sh, n, span, pos)
    ELSE Err(pos - 1, <<>>, JsonError_new("NumberOutOfRange", TypeIdentifier(sh), span))

\* n is a u128
set_number_u128(sh, n, span, pos) ==
    IF ~IsSized(sh)
    THEN Err(pos - 1, <<>>, JsonError_new("InvalidValue", "unsized integer", span))
    ELSE IF LayoutSize(sh) = 16
    THEN wip_set_int(sh, FALSE, 16, n, pos)
    ELSE IF InRange(n, FALSE, 8)
    THEN set_number_u64(sh, n, span, pos)
    ELSE Err(pos - 1, <<>>, JsonError_new("NumberOutOfRange", TypeIdentifier(sh), span))

\* the token F64 of value n (+ 1/2 when frac)
set_number_f64(sh, n, frac, span, pos) ==
    CASE NumericTy(sh) = "float" ->
           IF ~IsSized(sh)
           THEN Err(pos - 1, <<>>, JsonError_new("InvalidValue", "unsized float", span))
           ELSE IF LayoutSize(sh) \in {4, 8}
           THEN wip_set_float(sh, LayoutSize(sh), n, frac, pos)
           ELSE Err(pos - 1, <<>>,
                    JsonError_new("InvalidValue", "unexpected float size", span))
      [] NumericTy(sh) = "sint" ->
           IF frac
           THEN Err(pos - 1, <<>>,
                    JsonError_new("TypeMismatch", "float with fractional part", span))
           ELSE set_number_i64(sh, Saturate(n, TRUE, 8), span, pos)
      [] NumericTy(sh) = "uint" ->
           IF frac
           THEN Err(pos - 1, <<>>,
                    JsonError_new("TypeMismatch", "float with fractional part", span))
           ELSE set_number_u64(sh, Saturate(n, FALSE, 8), span, pos)
      [] OTHER -> Err(pos - 1, <<>>, JsonError_new("TypeMismatch", "number", span))

(***************************************************************************)
(* The input text: lexemes                                                 *)
(*   k    : "{" "}" "[" "]" ":" "," "true" "false" "null" "str" "int"      *)
(*          "float" "bad"                                                  *)
(*   n    : the integer, or the whole part of the float                    *)
(*   frac : the float has the fractional part 1/2                          *)
(*   s    : the decoded text of the string / the rejected bytes            *)
(*   esc  : the string is written with an escape sequence                  *)
(*   ws   : bytes of whitespace before the lexeme                          *)
(***************************************************************************)
Lx(k, n, frac, s, esc, ws) ==
    [k |-> k, n |-> n, frac |-> frac, s |-> s, esc |-> esc, ws |-> ws]

P(k) == Lx(k, 0, FALSE, "", FALSE, 0)

LStr(s) == Lx("str", 0, FALSE, s, FALSE, 0)

LEsc(s) == Lx("str", 0, FALSE, s, TRUE, 0)

LInt(n) == Lx("int", n, FALSE, "", FALSE, 0)

LFloat(n, frac) == Lx("float", n, frac, "", FALSE, 0)

LBad(s) == Lx("bad", 0, FALSE, s, FALSE, 0)

Sp(l) == [l EXCEPT !.ws = 1]

RECURSIVE Digits(_)
Digits(n) ==
    IF n < 0 THEN 1 + Digits(0 - n)
    ELSE IF n < 10 THEN 1 ELSE 1 + Digits(n \div 10)

\* bytes of a lexeme
LexLen(l) ==
    CASE l.k \in {"{", "}", "[", "]", ":", ","} -> 1
      [] l.k \in {"true", "null"} -> 4
      [] l.k = "false" -> 5
      [] l.k = "str" -> Len(l.s) + 2 + (IF l.esc THEN 1 ELSE 0)
      [] l.k = "int" -> Digits(l.n)
      [] l.k = "float" -> Digits(l.n) + 2
      [] l.k = "bad" -> Len(l.s)
      [] l.k = "bom" -> 3

RECURSIVE LexEnd(_, _)
\* byte offset just past lexeme i (0 for i = 0)
LexEnd(lex, i) ==
    IF i = 0 THEN 0 ELSE LexEnd(lex, i - 1) + lex[i].ws + LexLen(lex[i])

LexStart(lex, i) == LexEnd(lex, i - 1) + lex[i].ws

TextLen(lex) == LexEnd(lex, Len(lex))

(***************************************************************************)
(* Tokens (crate::tokenizer, not among the sources: modelled from the      *)
(* specification, sections 3 and 4.B)                                      *)
(***************************************************************************)
Tok(k, n, frac, s, owned, span) ==
    [k |-> k, n |-> n, frac |-> frac, s |-> s, owned |-> owned, span |-> span]

\* The narrowest representation that holds the digits: I64, U64, I128, U128
IntTokenKind(n) ==
    IF InRange(n, TRUE, 8) THEN "I64"
    ELSE IF InRange(n, FALSE, 8) THEN "U64"
    ELSE IF InRange(n, TRUE, 16) THEN "I128"
    ELSE IF InRange(n, FALSE, 16) THEN "U128"
    ELSE "Error"

\* one token of the lexeme l found at byte `start` of the tokenizer's slice
next_token(l, start) ==
    LET sp == Span(start, LexLen(l)) IN
    CASE l.k = "{" -> Tok("LBrace", 0, FALSE, "", FALSE, sp)
      [] l.k = "}" -> Tok("RBrace", 0, FALSE, "", FALSE, sp)
      [] l.k = "[" -> Tok("LBracket", 0, FALSE, "", FALSE, sp)
      [] l.k = "]" -> Tok("RBracket", 0, FALSE, "", FALSE, sp)
      [] l.k = ":" -> Tok("Colon", 0, FALSE, "", FALSE, sp)
      [] l.k = "," -> Tok("Comma", 0, FALSE, "", FALSE, sp)
      [] l.k = "true" -> Tok("True", 0, FALSE, "", FALSE, sp)
      [] l.k = "false" -> Tok("False", 0, FALSE, "", FALSE, sp)
      [] l.k = "null" -> Tok("Null", 0, FALSE, "", FALSE, sp)
      [] l.k = "str" -> Tok("String", 0, FALSE, l.s, l.esc, sp)
      [] l.k = "float" -> Tok("F64", l.n, l.frac, "", FALSE, sp)
      [] l.k = "int" ->
           IF IntTokenKind(l.n) = "Error"
           THEN Tok("Error", 0, FALSE, "NumberOutOfRange", FALSE, sp)
           ELSE Tok(IntTokenKind(l.n), l.n, FALSE, "", FALSE, sp)
      [] l.k \in {"bad", "bom"} ->
           Tok("Error", 0, FALSE, "UnexpectedCharacter", FALSE, Span(start, 1))

\* Tokenizer::new(&input[off..]): the tokens of the lexemes that start at or
\* after byte off, with spans relative to off
FirstLexeme(lex, off) ==
    IF \E i \in 1..Len(lex) : LexStart(lex, i) >= off
    THEN CHOOSE i \in 1..Len(lex) :
            /\ LexStart(lex, i) >= off
            /\ \A j \in 1..(i - 1) : LexStart(lex, j) < off
    ELSE Len(lex) + 1

Tokenizer_new(lex, off) ==
    LET first == FirstLexeme(lex, off) IN
    [i \in 1..(Len(lex) + 1 - first) |->
        next_token(lex[first + i - 1], LexStart(lex, first + i - 1) - off)]

EofToken(lex, off) == Tok("Eof", 0, FALSE, "", FALSE, Span(TextLen(lex) - off, 0))

(***************************************************************************)
(* JsonDeserializer: `toks` is what the tokenizer returns from the slice   *)
(* it was created on; the token at index pos is the next one to consume.   *)
(* peek() looks at it, next() consumes it.                                 *)
(***************************************************************************)
\* eof is the token the tokenizer returns, again and again, at the end of
\* its slice
JsonDeserializer_new(lex) ==
    [input |-> lex, off |-> 0, toks |-> Tokenizer_new(lex, 0),
     eof |-> EofToken(lex, 0)]

from_offset(lex, offset) ==
    [input |-> lex, off |-> offset, toks |-> Tokenizer_new(lex, offset),
     eof |-> EofToken(lex, offset)]

peek(D, pos) == IF pos > Len(D.toks) THEN D.eof ELSE D.toks[pos]

IsEof(D, pos) == pos > Len(D.toks)

\* next()? on a tokenizer error: impl From<TokenError> for JsonError
TokenErr(pos, t) == Err(pos, <<>>, FromTokenError(t.s, t.span))

\* next_expecting()? on a tokenizer error
TokenErrWithContext(pos, t) ==
    Err(pos, <<>>, JsonError("TokenWithContext", t.s, Some(t.span)))

UnexpectedToken(pos, t, expected) ==
    Err(pos, <<>>, JsonError_new("UnexpectedToken", expected, t.span))

(***************************************************************************)
(* skip_value                                                              *)
(***************************************************************************)
\* One iteration of `while depth > 0 { let t = self.next()?; ... }`:
\* st = [pc, pos, depth, open], pc in {"loop", "ok", "err"}
skip_loop_step(D, st) ==
    LET t == peek(D, st.pos) IN
    IF t.k = "Error"
    THEN [st EXCEPT !.pc = "err"]
    ELSE LET d == IF t.k = st.open THEN st.depth + 1
                  ELSE IF t.k = st.close THEN st.depth - 1
                  ELSE st.depth
         IN [st EXCEPT !.pos = IF IsEof(D, st.pos) THEN st.pos ELSE st.pos + 1,
                       !.depth = d,
                       !.pc = IF d > 0 THEN "loop" ELSE "ok"]

\* `let token = self.next()?; match token.node { ... }` up to the loop
skip_first_step(D, pos) ==
    LET t == peek(D, pos) IN
    CASE t.k = "LBrace" ->
           [pc |-> "loop", pos |-> pos + 1, depth |-> 1,
            open |-> "LBrace", close |-> "RBrace"]
      [] t.k = "LBracket" ->
           [pc |-> "loop", pos |-> pos + 1, depth |-> 1,
            open |-> "LBracket", close |-> "RBracket"]
      [] t.k \in {"String", "F64", "I64", "U64", "U128", "I128",
                  "True", "False", "Null"} ->
           [pc |-> "ok", pos |-> pos + 1, depth |-> 0, open |-> "", close |-> ""]
      [] OTHER ->
           [pc |-> "err", pos |-> pos, depth |-> 0, open |-> "", close |-> ""]

RECURSIVE skip_loop(_, _)
\* The loop run to its end.  At the end of input next() returns Eof, which
\* changes neither depth nor the tokenizer: the loop repeats for ever
\* ("hang").
skip_loop(D, st) ==
    IF st.pc # "loop" THEN st
    ELSE IF IsEof(D, st.pos) THEN [st EXCEPT !.pc = "hang"]
    ELSE skip_loop(D, skip_loop_step(D, st))

skip_value(D, pos) ==
    LET return(first, st, t) ==
            CASE st.pc = "ok" -> Ok(st.pos, <<>>, NoVal)
              [] st.pc = "hang" -> Hang(st.pos, <<>>)
              [] st.pc = "err" /\ first.pc = "err" /\ t.k # "Error" ->
                   UnexpectedToken(pos, t, "value")
              [] OTHER -> TokenErr(st.pos, t)
        run(first, st) == return(first, st, peek(D, st.pos))
        start(first) == run(first, skip_loop(D, first))
    IN start(skip_first_step(D, pos))

(***************************************************************************)
(* Shapes of user types and containers (facet_core::Shape, as far as the   *)
(* codec reads it)                                                         *)
(***************************************************************************)
\* Field: flags DEFAULT and FLATTEN, vtable.default_fn, and
\* vtable.deserialize_with as the shape the hook converts from
Fld(name, sh) ==
    [name |-> name, shape |-> sh, default |-> FALSE, default_fn |-> FALSE,
     flatten |-> FALSE, with |-> None]

\* attrs: deny_unknown_fields, default
StructShape(kind, fields, deny, default) ==
    [k |-> "struct", kind |-> kind, fields |-> fields, deny |-> deny,
     default |-> default]

Variant(name, kind, fields) == [name |-> name, kind |-> kind, fields |-> fields]

\* the tag and content keys of the enums of the model
TagName == "tag"

ContentName == "content"

\* tagging: "external", "internal", "adjacent", "untagged", as the shape's
\* attributes: untagged is shape.is_untagged(), tag is shape.get_tag_attr(),
\* content is shape.get_content_attr(), type_tag is the type_tag attribute
EnumShape(variants, tagging) ==
    [k |-> "enum", variants |-> variants,
     untagged |-> tagging = "untagged",
     tag |-> IF tagging \in {"internal", "adjacent"} THEN Some(TagName) ELSE None,
     content |-> IF tagging = "adjacent" THEN Some(ContentName) ELSE None,
     type_tag |-> None]

OptionShape(t) == [k |-> "option", t |-> t]

ListShape(t) == [k |-> "list", t |-> t]

SetShape(t) == [k |-> "set", t |-> t]

MapShape(key, val) == [k |-> "map", key |-> key, val |-> val]

ArrayShape(t, n) == [k |-> "array", t |-> t, n |-> n]

\* known: "Box", "Arc", "Rc", "SharedReference", "ExclusiveReference"
PointerShape(known, pointee) == [k |-> "pointer", known |-> known, t |-> pointee]

StrShape == [k |-> "str"]

SliceShape(t) == [k |-> "slice", t |-> t]

\* a transparent wrapper: shape.inner is set
WrapperShape(t) == [k |-> "wrapper", t |-> t]

\* Def::Undefined and the like
OpaqueShape == [k |-> "opaque"]

has_flatten_fields(sh) == \E i \in 1..Len(sh.fields) : sh.fields[i].flatten

is_spanned_shape(sh) ==
    /\ sh.k = "struct"
    /\ Len(sh.fields) = 2
    /\ \E i \in 1..2 : sh.fields[i].name = "value"
    /\ \E i \in 1..2 : sh.fields[i].name = "span"

FieldIndex(fields, name) ==
    IF \E i \in 1..Len(fields) : fields[i].name = name
    THEN CHOOSE i \in 1..Len(fields) :
            /\ fields[i].name = name
            /\ \A j \in 1..(i - 1) : fields[j].name # name
    ELSE 0

FieldNames(fields) == [i \in 1..Len(fields) |-> fields[i].name]

(***************************************************************************)
(* Values of user types and containers                                     *)
(***************************************************************************)
StructVal(f) == [t |-> "struct", f |-> f]

VariantVal(name, f) == [t |-> "variant", name |-> name, f |-> f]

NoneVal == [t |-> "none"]

SomeVal(v) == [t |-> "some", v |-> v]

ListVal(v) == [t |-> "list", v |-> v]

MapVal(v) == [t |-> "map", v |-> v]

PtrVal(v) == [t |-> "ptr", v |-> v]

WrapVal(v) == [t |-> "wrap", v |-> v]

\* the result of a deserialize_with hook applied to v
CustomVal(v) == [t |-> "custom", v |-> v]

\* the result of a field's default_fn
DefaultFnVal == [t |-> "default_fn"]

Unset(n) == [i \in 1..n |-> NoVal]

RECURSIVE HasDefault(_)
\* Characteristic::Default
HasDefault(sh) ==
    CASE sh.k = "scalar" -> TRUE
      [] sh.k \in {"option", "list", "set", "map"} -> TRUE
      [] sh.k = "struct" -> sh.default
      [] sh.k = "pointer" -> sh.known \in {"Box", "Arc", "Rc"} /\ sh.t.k \notin {"str", "slice"}
                             /\ HasDefault(sh.t)
      [] sh.k = "wrapper" -> HasDefault(sh.t)
      [] OTHER -> FALSE

RECURSIVE DefaultOf(_)
DefaultOf(sh) ==
    CASE sh.k = "scalar" /\ sh.ty = "int" -> IntVal(0)
      [] sh.k = "scalar" /\ sh.ty = "float" -> FloatVal(0, FALSE)
      [] sh.k = "scalar" /\ sh.ty = "bool" -> BoolVal(FALSE)
      [] sh.k = "scalar" /\ sh.ty \in {"String", "Cow"} -> StrVal("", FALSE)
      [] sh.k = "option" -> NoneVal
      [] sh.k \in {"list", "set"} -> ListVal(<<>>)
      [] sh.k = "map" -> MapVal(<<>>)
      [] sh.k = "struct" ->
           StructVal([i \in 1..Len(sh.fields) |-> DefaultOf(sh.fields[i].shape)])
      [] sh.k = "pointer" -> PtrVal(DefaultOf(sh.t))
      [] sh.k = "wrapper" -> WrapVal(DefaultOf(sh.t))
      [] OTHER -> NoVal

\* Partial::set_default
wip_set_default(sh, pos) ==
    IF HasDefault(sh)
    THEN Ok(pos, <<"set_default">>, DefaultOf(sh))
    ELSE Err(pos - 1, <<"set_default">>, FromReflectError("no default"))

\* Partial::set(String) / set(&str) / set(Cow<str>) / set(bool)
wip_set_str(sh, ty, s, borrowed, pos) ==
    IF (sh.k = "scalar" /\ sh.ty = ty) \/ (ty = "&str" /\ sh.k = "pointer")
    THEN Ok(pos, <<"set">>, StrVal(s, borrowed))
    ELSE Err(pos - 1, <<"set">>, FromReflectError("WrongShape"))

wip_set_bool(sh, b, pos) ==
    IF sh.k = "scalar" /\ sh.ty = "bool"
    THEN Ok(pos, <<"set">>, BoolVal(b))
    ELSE Err(pos - 1, <<"set">>, FromReflectError("WrongShape"))

\* Partial::parse_from_str through the shape's vtable.parse (FromStr): the
\* strings of the model that are decimal integers
ParsesAsInt(s) == s \in {"0", "1", "2", "3", "300"}

ParseInt(s) ==
    CASE s = "0" -> 0 [] s = "1" -> 1 [] s = "2" -> 2 [] s = "3" -> 3
      [] s = "300" -> 300

has_parse(sh) == sh.k = "scalar" /\ sh.ty \in {"int", "float", "bool", "String"}

wip_parse_from_str(sh, s, pos) ==
    IF sh.ty = "String" THEN Ok(pos, <<"parse_from_str">>, StrVal(s, FALSE))
    ELSE IF sh.ty = "int" /\ ParsesAsInt(s) /\ InRange(ParseInt(s), sh.signed, sh.size)
    THEN Ok(pos, <<"parse_from_str">>, IntVal(ParseInt(s)))
    ELSE IF sh.ty = "bool" /\ s \in {"true", "false"}
    THEN Ok(pos, <<"parse_from_str">>, BoolVal(s = "true"))
    ELSE Err(pos - 1, <<"parse_from_str">>, FromReflectError("parse failed"))

\* r, then the builder calls `after`, giving val; the calls `before` were
\* issued before r ran
Then(before, r, after, val) ==
    IF r.res # "ok" THEN WithOps(before, r)
    ELSE Ok(r.pos, before \o r.ops \o after, val)

(***************************************************************************)
(* deserialize_scalar                                                      *)
(***************************************************************************)
deserialize_scalar(D, pos, sh) ==
    LET t == peek(D, pos)
        p == pos + 1
    IN CASE t.k = "Error" -> TokenErrWithContext(pos, t)
         [] t.k = "String" ->
              IF has_parse(sh) THEN wip_parse_from_str(sh, t.s, p)
              ELSE IF sh.k = "scalar" /\ sh.ty = "Cow"
              THEN wip_set_str(sh, "Cow", t.s, ~t.owned, p)
              ELSE wip_set_str(sh, "String", t.s, FALSE, p)
         [] t.k = "True" -> wip_set_bool(sh, TRUE, p)
         [] t.k = "False" -> wip_set_bool(sh, FALSE, p)
         [] t.k = "Null" -> wip_set_default(sh, p)
         [] t.k = "F64" -> set_number_f64(sh, t.n, t.frac, t.span, p)
         [] t.k = "I64" -> set_number_i64(sh, t.n, t.span, p)
         [] t.k = "U64" -> set_number_u64(sh, t.n, t.span, p)
         [] t.k = "I128" -> set_number_i128(sh, t.n, t.span, p)
         [] t.k = "U128" -> set_number_u128(sh, t.n, t.span, p)
         [] OTHER -> UnexpectedToken(pos, t, "scalar value")

(***************************************************************************)
(* set_string_value                                                        *)
(***************************************************************************)
\* set_string_value storing every Cow<str> as Cow::Owned
set_string_value_owned(sh, t, pos) ==
    IF sh.k = "pointer" /\ sh.known = "SharedReference" /\ sh.t.k = "str"
    THEN IF ~t.owned
         THEN wip_set_str(sh, "&str", t.s, TRUE, pos)
         ELSE Err(pos - 1, <<>>, without_span("InvalidValue", "cannot borrow &str"))
    ELSE IF sh.k = "scalar" /\ sh.ty = "Cow"
    THEN wip_set_str(sh, "Cow", t.s, FALSE, pos)
    ELSE wip_set_str(sh, "String", t.s, FALSE, pos)

set_string_value(sh, t, pos) ==
    IF sh.k = "pointer" /\ sh.known = "SharedReference" /\ sh.t.k = "str"
    THEN IF ~t.owned
         THEN wip_set_str(sh, "&str", t.s, TRUE, pos)
         ELSE Err(pos - 1, <<>>, without_span("InvalidValue", "cannot borrow &str"))
    ELSE IF sh.k = "scalar" /\ sh.ty = "Cow"
    THEN wip_set_str(sh, "Cow", t.s, ~t.owned, pos)
    ELSE wip_set_str(sh, "String", t.s, FALSE, pos)

(***************************************************************************)
(* find_similar_field                                                      *)
(***************************************************************************)
\* strsim::jaro_winkler in thousandths, rounded down, for the keys and the
\* field names of the model
jaro_winkler(a, b) ==
    IF a = b THEN 1000
    ELSE CASE a = "emial" /\ b = "email" -> 946
           [] a = "emial" /\ b = "username" -> 549
           [] a = "x1" /\ b = "xa" -> 666
           [] a = "x1" /\ b = "xb" -> 666
           [] a = "x1" /\ b = "x12" -> 911
           [] a = "x2" /\ b = "xa" -> 666
           [] a = "x2" /\ b = "xb" -> 666
           [] a = "x2" /\ b = "x12" -> 611
           [] a = "hots" /\ b = "host" -> 933
           [] a = "hots" /\ b = "port" -> 666
           [] OTHER -> 0

\* `similarity >= 0.6`, in thousandths
SimilarityThreshold == 600

RECURSIVE find_similar_scan_last(_, _, _, _)
\* find_similar_scan with `>=` in place of `>`: on a tie the later name wins
find_similar_scan_last(unknown, expected, i, best_match) ==
    IF i > Len(expected) THEN best_match
    ELSE LET similarity == jaro_winkler(unknown, expected[i]) IN
         find_similar_scan_last(unknown, expected, i + 1,
            IF similarity >= SimilarityThreshold
               /\ (best_match = None \/ similarity >= best_match[1][2])
            THEN Some(<<expected[i], similarity>>)
            ELSE best_match)

RECURSIVE find_similar_scan(_, _, _, _)
\* the loop over `expected`: best_match is None or Some(<<name, similarity>>)
find_similar_scan(unknown, expected, i, best_match) ==
    IF i > Len(expected) THEN best_match
    ELSE LET similarity == jaro_winkler(unknown, expected[i]) IN
         find_similar_scan(unknown, expected, i + 1,
            IF similarity >= SimilarityThreshold
               /\ (best_match = None \/ similarity > best_match[1][2])
            THEN Some(<<expected[i], similarity>>)
            ELSE best_match)

find_similar_field(unknown, expected) ==
    LET best_match == find_similar_scan(unknown, expected, 1, None) IN
    IF best_match = None THEN None ELSE Some(best_match[1][1])

UnknownField(pos, key, fields) ==
    Err(pos, <<>>,
        [JsonError_new("UnknownField", key.s, key.span) EXCEPT
            !.expected = FieldNames(fields),
            !.suggestion = find_similar_field(key.s, FieldNames(fields))])

MissingField(pos, field, object_start, object_end) ==
    Err(pos, <<>>,
        [JsonError("MissingField", field.name, None) EXCEPT
            !.object_start = Some(object_start),
            !.object_end = object_end])

\* select_variant_named
VariantIndex(variants, name) ==
    IF \E i \in 1..Len(variants) : variants[i].name = name
    THEN CHOOSE i \in 1..Len(variants) :
            /\ variants[i].name = name
            /\ \A j \in 1..(i - 1) : variants[j].name # name
    ELSE 0

(***************************************************************************)
(* deserialize_into and the functions it dispatches to                     *)
(***************************************************************************)
RECURSIVE deserialize_into(_, _, _)
RECURSIVE deserialize_field(_, _, _)
RECURSIVE deserialize_spanned(_, _, _)
RECURSIVE deserialize_option(_, _, _)
RECURSIVE deserialize_pointer(_, _, _)
RECURSIVE slice_loop(_, _, _, _, _)
RECURSIVE deserialize_struct(_, _, _)
RECURSIVE deserialize_struct_simple(_, _, _)
RECURSIVE struct_simple_loop(_, _, _, _, _)
RECURSIVE deserialize_struct_with_flatten(_, _, _)
RECURSIVE deserialize_enum(_, _, _)
RECURSIVE enum_tuple_loop(_, _, _, _, _, _)
RECURSIVE deserialize_variant_struct_content(_, _, _)
RECURSIVE deserialize_variant_struct_fields(_, _, _)
RECURSIVE variant_struct_loop(_, _, _, _, _)
RECURSIVE deserialize_variant_tuple_fields(_, _, _)
RECURSIVE variant_tuple_loop(_, _, _, _, _, _)
RECURSIVE deserialize_list(_, _, _)
RECURSIVE list_loop(_, _, _, _, _, _)
RECURSIVE deserialize_map(_, _, _)
RECURSIVE map_loop(_, _, _, _, _)
RECURSIVE deserialize_set(_, _, _)
RECURSIVE deserialize_array(_, _, _)
RECURSIVE deserialize_tuple(_, _, _)
RECURSIVE fixed_loop(_, _, _, _, _, _)

deserialize_into(D, pos, sh) ==
    IF is_spanned_shape(sh) THEN deserialize_spanned(D, pos, sh)
    ELSE IF sh.k = "option" THEN deserialize_option(D, pos, sh)
    ELSE IF sh.k = "pointer" THEN deserialize_pointer(D, pos, sh)
    ELSE IF sh.k = "wrapper"
    THEN LET r == deserialize_into(D, pos, sh.t) IN
         Then(<<"begin_inner">>, r, <<"end">>, WrapVal(r.val))
    ELSE IF sh.k = "struct"
    THEN (IF sh.kind = "Tuple" THEN deserialize_tuple(D, pos, sh)
          ELSE deserialize_struct(D, pos, sh))
    ELSE IF sh.k = "enum" THEN deserialize_enum(D, pos, sh)
    ELSE IF sh.k = "scalar" THEN deserialize_scalar(D, pos, sh)
    ELSE IF sh.k = "list" THEN deserialize_list(D, pos, sh)
    ELSE IF sh.k = "map" THEN deserialize_map(D, pos, sh)
    ELSE IF sh.k = "array" THEN deserialize_array(D, pos, sh)
    ELSE IF sh.k = "set" THEN deserialize_set(D, pos, sh)
    ELSE Err(pos - 1, <<>>, without_span("InvalidValue", "unsupported shape def"))

\* the value of a field whose frame is open: through the deserialize_with
\* hook when the field has one
deserialize_field(D, pos, field) ==
    IF field.with # None
    THEN LET r == deserialize_into(D, pos, field.with[1]) IN
         Then(<<"begin_custom_deserialization">>, r, <<"end">>, CustomVal(r.val))
    ELSE deserialize_into(D, pos, field.shape)

deserialize_spanned(D, pos, sh) ==
    LET t == peek(D, pos)
        vi == FieldIndex(sh.fields, "value")
        si == FieldIndex(sh.fields, "span")
        spsh == sh.fields[si].shape
    IN IF t.k = "Error" THEN TokenErr(pos, t)
       ELSE LET r == deserialize_into(D, pos, sh.fields[vi].shape) IN
            IF r.res # "ok" THEN WithOps(<<"begin_field">>, r)
            ELSE IF spsh.k = "struct" /\ FieldNames(spsh.fields) = <<"offset", "len">>
            THEN Ok(r.pos,
                    <<"begin_field">> \o r.ops
                      \o <<"end", "begin_field", "set_field", "set_field", "end">>,
                    StructVal([i \in 1..2 |->
                        IF i = vi THEN r.val
                        ELSE StructVal(<<IntVal(t.span.start), IntVal(t.span.len)>>)]))
            ELSE Err(r.pos - 1,
                     <<"begin_field">> \o r.ops \o <<"end", "begin_field", "set_field">>,
                     FromReflectError("no such field"))

\* deserialize_option without the end() that closes the Some frame
deserialize_option_no_end(D, pos, sh) ==
    LET t == peek(D, pos) IN
    IF t.k = "Error" THEN TokenErr(pos, t)
    ELSE IF t.k = "Null" THEN Ok(pos + 1, <<"set_default">>, NoneVal)
    ELSE LET r == deserialize_into(D, pos, sh.t) IN
         Then(<<"begin_some">>, r, <<>>, SomeVal(r.val))

deserialize_option(D, pos, sh) ==
    LET t == peek(D, pos) IN
    IF t.k = "Error" THEN TokenErr(pos, t)
    ELSE IF t.k = "Null" THEN Ok(pos + 1, <<"set_default">>, NoneVal)
    ELSE LET r == deserialize_into(D, pos, sh.t) IN
         Then(<<"begin_some">>, r, <<"end">>, SomeVal(r.val))

\* the element loop of a slice pointer: elements, then ',' or ']'
slice_loop(D, pos, sh, ops, vals) ==
    LET r == deserialize_into(D, pos, sh.t.t) IN
    IF r.res # "ok" THEN WithOps(ops \o <<"begin_list_item">>, r)
    ELSE LET nx == peek(D, r.pos)
             ops2 == ops \o <<"begin_list_item">> \o r.ops \o <<"end">>
         IN IF nx.k = "Error" THEN WithOps(ops2, TokenErr(r.pos, nx))
            ELSE IF nx.k = "Comma"
            THEN slice_loop(D, r.pos + 1, sh, ops2, Append(vals, r.val))
            ELSE IF nx.k = "RBracket"
            THEN Ok(r.pos + 1, ops2 \o <<"end">>, PtrVal(ListVal(Append(vals, r.val))))
            ELSE WithOps(ops2, UnexpectedToken(r.pos, nx, "',' or ']'"))

deserialize_pointer(D, pos, sh) ==
    LET is_slice_pointer == sh.t.k = "slice"
        is_reference == sh.known \in {"SharedReference", "ExclusiveReference"}
        is_str_ref == sh.known = "SharedReference" /\ sh.t.k = "str"
        t == peek(D, pos)
    IN IF is_str_ref
       THEN (IF t.k = "Error" THEN TokenErr(pos, t)
             ELSE IF t.k = "String" /\ ~t.owned
             THEN wip_set_str(sh, "&str", t.s, TRUE, pos + 1)
             ELSE IF t.k = "String"
             THEN Err(pos, <<>>, JsonError_new("InvalidValue", "cannot borrow &str", t.span))
             ELSE UnexpectedToken(pos, t, "string"))
       ELSE IF is_reference
       THEN Err(pos - 1, <<>>, without_span("InvalidValue", "cannot deserialize into reference"))
       ELSE IF is_slice_pointer
       THEN (IF t.k = "Error" THEN WithOps(<<"begin_smart_ptr">>, TokenErr(pos, t))
             ELSE IF t.k # "LBracket"
             THEN WithOps(<<"begin_smart_ptr">>, UnexpectedToken(pos, t, "'['"))
             ELSE LET first == peek(D, pos + 1) IN
                  IF first.k = "Error"
                  THEN WithOps(<<"begin_smart_ptr">>, TokenErr(pos + 1, first))
                  ELSE IF first.k = "RBracket"
                  THEN Ok(pos + 2, <<"begin_smart_ptr", "end">>, PtrVal(ListVal(<<>>)))
                  ELSE slice_loop(D, pos + 1, sh, <<"begin_smart_ptr">>, <<>>))
       ELSE \* a str pointee is built as a String
            LET r == deserialize_into(D, pos,
                        IF sh.t.k = "str" THEN StringShape ELSE sh.t)
            IN Then(<<"begin_smart_ptr">>, r, <<"end">>, PtrVal(r.val))

(***************************************************************************)
(* deserialize_struct, deserialize_struct_simple                           *)
(***************************************************************************)
deserialize_struct(D, pos, sh) ==
    IF has_flatten_fields(sh) THEN deserialize_struct_with_flatten(D, pos, sh)
    ELSE deserialize_struct_simple(D, pos, sh)

\* Partial::set_nth_field_to_default: the field's default_fn, or else the
\* Default of the field's type
set_nth_field_to_default(field, pos) ==
    IF field.default_fn THEN Ok(pos, <<"set_nth_field_to_default">>, DefaultFnVal)
    ELSE IF HasDefault(field.shape)
    THEN Ok(pos, <<"set_nth_field_to_default">>, DefaultOf(field.shape))
    ELSE Err(pos - 1, <<"set_nth_field_to_default">>, FromReflectError("no default"))

\* begin_field, the value (through the deserialize_with hook when the field
\* has one), end
field_member(D, pos, field) ==
    LET r == deserialize_field(D, pos, field) IN
    Then(<<"begin_field">>, r, <<"end">>, r.val)

RECURSIVE apply_missing_fields_no_skip(_, _, _, _, _)
\* apply_missing_fields without `if fields_set[idx] { continue; }` for the
\* fields that have a default
apply_missing_fields_no_skip(sh, r, i, object_start_span, object_end_span) ==
    IF i > Len(sh.fields) THEN r
    ELSE LET field == sh.fields[i] IN
         IF field.default_fn \/ field.default
               \/ (sh.default /\ HasDefault(field.shape))
         THEN LET d == set_nth_field_to_default(field, r.pos) IN
              IF d.res # "ok" THEN WithOps(r.ops, d)
              ELSE apply_missing_fields_no_skip(sh,
                      Ok(r.pos, r.ops \o d.ops,
                         StructVal([r.val.f EXCEPT ![i] = d.val])),
                      i + 1, object_start_span, object_end_span)
         ELSE IF r.val.f[i] # NoVal
         THEN apply_missing_fields_no_skip(sh, r, i + 1, object_start_span,
                                           object_end_span)
         ELSE WithOps(r.ops,
                 MissingField(r.pos - 1, field, object_start_span, object_end_span))

RECURSIVE apply_missing_fields(_, _, _, _, _)
\* `for (idx, field) in struct_def.fields.iter().enumerate()` after the
\* closing brace; r is the result of the member loop, i the next index
apply_missing_fields(sh, r, i, object_start_span, object_end_span) ==
    IF i > Len(sh.fields) THEN r
    ELSE LET field == sh.fields[i] IN
         IF r.val.f[i] # NoVal
         THEN apply_missing_fields(sh, r, i + 1, object_start_span, object_end_span)
         ELSE IF field.default_fn \/ field.default
                 \/ (sh.default /\ HasDefault(field.shape))
         THEN LET d == set_nth_field_to_default(field, r.pos) IN
              IF d.res # "ok" THEN WithOps(r.ops, d)
              ELSE apply_missing_fields(sh,
                      Ok(r.pos, r.ops \o d.ops,
                         StructVal([r.val.f EXCEPT ![i] = d.val])),
                      i + 1, object_start_span, object_end_span)
         ELSE WithOps(r.ops,
                 MissingField(r.pos - 1, field, object_start_span, object_end_span))

\* the `loop` of deserialize_struct_simple: fields_set[i] is vals[i] # NoVal
struct_simple_loop(D, pos, sh, ops, vals) ==
    LET token == peek(D, pos) IN
    IF token.k = "Error" THEN WithOps(ops, TokenErr(pos, token))
    ELSE IF token.k = "RBrace" THEN Ok(pos + 1, ops, StructVal(vals))
    ELSE IF token.k = "String"
    THEN LET colon == peek(D, pos + 1)
             idx == FieldIndex(sh.fields, token.s)
         IN IF colon.k = "Error" THEN WithOps(ops, TokenErr(pos + 1, colon))
            ELSE IF colon.k # "Colon"
            THEN WithOps(ops, UnexpectedToken(pos + 1, colon, "':'"))
            ELSE LET after_value(r) ==
                        IF r.res # "ok" THEN WithOps(ops, r)
                        ELSE LET next == peek(D, r.pos) IN
                             IF next.k = "Error"
                             THEN WithOps(ops \o r.ops, TokenErr(r.pos, next))
                             ELSE struct_simple_loop(D,
                                     IF next.k = "Comma" THEN r.pos + 1 ELSE r.pos,
                                     sh, ops \o r.ops,
                                     IF idx # 0 THEN [vals EXCEPT ![idx] = r.val]
                                     ELSE vals)
                 IN after_value(
                        IF idx # 0 THEN field_member(D, pos + 2, sh.fields[idx])
                        ELSE IF sh.deny THEN UnknownField(pos + 1, token, sh.fields)
                        ELSE skip_value(D, pos + 2))
    ELSE WithOps(ops, UnexpectedToken(pos, token, "field name or '}'"))

deserialize_struct_simple(D, pos, sh) ==
    LET open_token == peek(D, pos) IN
    IF open_token.k = "Error" THEN TokenErr(pos, open_token)
    ELSE IF open_token.k # "LBrace" THEN UnexpectedToken(pos, open_token, "'{'")
    ELSE LET after_loop(r) ==
                IF r.res # "ok" THEN r
                ELSE apply_missing_fields(sh, r, 1, open_token.span,
                                          Some(peek(D, r.pos - 1).span))
         IN after_loop(struct_simple_loop(D, pos + 1, sh, <<>>, Unset(Len(sh.fields))))

(***************************************************************************)
(* deserialize_enum and the variant bodies                                 *)
(***************************************************************************)
\* begin_nth_field, the value, end
nth_field_member(D, pos, field) ==
    LET r == deserialize_field(D, pos, field) IN
    Then(<<"begin_nth_field">>, r, <<"end">>, r.val)

\* `for i in 0..num_fields` of a multi-element tuple variant, then ']'
enum_tuple_loop(D, pos, fields, i, ops, vals) ==
    IF i > Len(fields)
    THEN LET close == peek(D, pos) IN
         IF close.k = "Error" THEN WithOps(ops, TokenErr(pos, close))
         ELSE IF close.k # "RBracket"
         THEN WithOps(ops, UnexpectedToken(pos, close, "']'"))
         ELSE Ok(pos + 1, ops, vals)
    ELSE LET after_value(r) ==
                IF r.res # "ok" THEN WithOps(ops, r)
                ELSE LET next == peek(D, r.pos) IN
                     IF next.k = "Error" THEN WithOps(ops \o r.ops, TokenErr(r.pos, next))
                     ELSE enum_tuple_loop(D,
                             IF next.k = "Comma" THEN r.pos + 1 ELSE r.pos,
                             fields, i + 1, ops \o r.ops,
                             [vals EXCEPT ![i] = r.val])
         IN after_value(nth_field_member(D, pos, fields[i]))

\* the loop of deserialize_variant_struct_fields
variant_struct_loop(D, pos, fields, ops, vals) ==
    LET token == peek(D, pos) IN
    IF token.k = "Error" THEN WithOps(ops, TokenErr(pos, token))
    ELSE IF token.k = "RBrace" THEN Ok(pos + 1, ops, vals)
    ELSE IF token.k # "String"
    THEN WithOps(ops, UnexpectedToken(pos, token, "field name"))
    ELSE LET colon == peek(D, pos + 1)
             idx == FieldIndex(fields, token.s)
         IN IF colon.k = "Error" THEN WithOps(ops, TokenErr(pos + 1, colon))
            ELSE IF colon.k # "Colon"
            THEN WithOps(ops, UnexpectedToken(pos + 1, colon, "':'"))
            ELSE LET after_value(r) ==
                        IF r.res # "ok" THEN WithOps(ops, r)
                        ELSE LET next == peek(D, r.pos) IN
                             IF next.k = "Error"
                             THEN WithOps(ops \o r.ops, TokenErr(r.pos, next))
                             ELSE variant_struct_loop(D,
                                     IF next.k = "Comma" THEN r.pos + 1 ELSE r.pos,
                                     fields, ops \o r.ops,
                                     IF idx # 0 THEN [vals EXCEPT ![idx] = r.val]
                                     ELSE vals)
                 IN after_value(IF idx # 0 THEN field_member(D, pos + 2, fields[idx])
                                ELSE skip_value(D, pos + 2))

\* fields is the field list of the selected variant
deserialize_variant_struct_fields(D, pos, fields) ==
    LET token == peek(D, pos) IN
    IF token.k = "Error" THEN TokenErr(pos, token)
    ELSE IF token.k # "LBrace"
    THEN UnexpectedToken(pos, token, "'{' for struct variant")
    ELSE variant_struct_loop(D, pos + 1, fields, <<>>, Unset(Len(fields)))

\* format!("{}", idx) for the indices of the model
TupleFieldName(idx) ==
    CASE idx = 0 -> "0" [] idx = 1 -> "1" [] idx = 2 -> "2" [] OTHER -> "3"

\* the loop of deserialize_variant_tuple_fields; idx counts from 0
variant_tuple_loop(D, pos, fields, idx, ops, vals) ==
    LET token == peek(D, pos) IN
    IF token.k = "Error" THEN WithOps(ops, TokenErr(pos, token))
    ELSE IF token.k = "RBracket" THEN Ok(pos + 1, ops, vals)
    ELSE LET fi == FieldIndex(fields, TupleFieldName(idx)) IN
         IF fi = 0
         THEN Err(pos - 1, ops \o <<"begin_field">>, FromReflectError("no such field"))
         ELSE LET r == deserialize_into(D, pos, fields[fi].shape) IN
              IF r.res # "ok" THEN WithOps(ops \o <<"begin_field">>, r)
              ELSE LET next == peek(D, r.pos)
                       ops2 == ops \o <<"begin_field">> \o r.ops \o <<"end">>
                   IN IF next.k = "Error" THEN WithOps(ops2, TokenErr(r.pos, next))
                      ELSE variant_tuple_loop(D,
                              IF next.k = "Comma" THEN r.pos + 1 ELSE r.pos,
                              fields, idx + 1, ops2, [vals EXCEPT ![fi] = r.val])

deserialize_variant_tuple_fields(D, pos, fields) ==
    LET token == peek(D, pos) IN
    IF token.k = "Error" THEN TokenErr(pos, token)
    ELSE IF token.k # "LBracket"
    THEN UnexpectedToken(pos, token, "'[' for tuple variant")
    ELSE variant_tuple_loop(D, pos + 1, fields, 0, <<>>, Unset(Len(fields)))

\* variant is the selected variant
deserialize_variant_struct_content(D, pos, variant) ==
    LET is_struct_variant ==
            Len(variant.fields) = 0
            \/ variant.fields[1].name \notin {"0", "1", "2", "3"}
    IN IF is_struct_variant
       THEN deserialize_variant_struct_fields(D, pos, variant.fields)
       ELSE IF Len(variant.fields) = 1
       THEN LET single(r) == IF r.res # "ok" THEN r ELSE Ok(r.pos, r.ops, <<r.val>>)
            IN single(nth_field_member(D, pos, variant.fields[1]))
       ELSE deserialize_variant_tuple_fields(D, pos, variant.fields)

\* the data of the selected variant, after `"Name" :`
enum_variant_data(D, pos, variant) ==
    LET tok == peek(D, pos)
        num_fields == Len(variant.fields)
    IN IF variant.kind = "Unit"
       THEN (IF tok.k = "Error" THEN TokenErr(pos, tok)
             ELSE IF tok.k # "Null"
             THEN UnexpectedToken(pos, tok, "null for unit variant")
             ELSE Ok(pos + 1, <<>>, <<>>))
       ELSE IF variant.kind \in {"Tuple", "TupleStruct"}
       THEN (IF num_fields = 0
             THEN (IF tok.k = "Error" THEN TokenErr(pos, tok)
                   ELSE Ok(IF tok.k = "Null" THEN pos + 1 ELSE pos, <<>>, <<>>))
             ELSE IF num_fields = 1
             THEN LET single(r) ==
                         IF r.res # "ok" THEN r ELSE Ok(r.pos, r.ops, <<r.val>>)
                  IN single(nth_field_member(D, pos, variant.fields[1]))
             ELSE IF tok.k = "Error" THEN TokenErr(pos, tok)
             ELSE IF tok.k # "LBracket"
             THEN UnexpectedToken(pos, tok, "'[' for tuple variant")
             ELSE enum_tuple_loop(D, pos + 1, variant.fields, 1, <<>>,
                                  Unset(num_fields)))
       ELSE deserialize_variant_struct_content(D, pos, variant)

deserialize_enum(D, pos, sh) ==
    LET token == peek(D, pos)
        key_token == peek(D, pos + 1)
        colon == peek(D, pos + 2)
    IN IF token.k = "Error" THEN TokenErr(pos, token)
       ELSE IF token.k = "String"
       THEN LET vi == VariantIndex(sh.variants, token.s) IN
            IF vi = 0
            THEN Err(pos, <<"select_variant_named">>, FromReflectError("no such variant"))
            ELSE Ok(pos + 1, <<"select_variant_named">>,
                    VariantVal(token.s, Unset(Len(sh.variants[vi].fields))))
       ELSE IF token.k = "LBrace"
       THEN (IF key_token.k = "Error" THEN TokenErr(pos + 1, key_token)
             ELSE IF key_token.k = "RBrace"
             THEN Err(pos + 1, <<>>,
                      JsonError_new("InvalidValue",
                                    "empty object cannot represent enum variant",
                                    key_token.span))
             ELSE IF key_token.k # "String"
             THEN UnexpectedToken(pos + 1, key_token, "variant name")
             ELSE IF colon.k = "Error" THEN TokenErr(pos + 2, colon)
             ELSE IF colon.k # "Colon" THEN UnexpectedToken(pos + 2, colon, "':'")
             ELSE LET vi == VariantIndex(sh.variants, key_token.s) IN
                  IF vi = 0
                  THEN Err(pos + 2, <<"select_variant_named">>,
                           FromReflectError("no such variant"))
                  ELSE LET after_data(r) ==
                              LET close == peek(D, r.pos) IN
                              IF r.res # "ok" THEN WithOps(<<"select_variant_named">>, r)
                              ELSE IF close.k = "Error"
                              THEN WithOps(<<"select_variant_named">> \o r.ops,
                                           TokenErr(r.pos, close))
                              ELSE IF close.k # "RBrace"
                              THEN WithOps(<<"select_variant_named">> \o r.ops,
                                           UnexpectedToken(r.pos, close, "'}'"))
                              ELSE Ok(r.pos + 1, <<"select_variant_named">> \o r.ops,
                                      VariantVal(key_token.s, r.val))
                       IN after_data(enum_variant_data(D, pos + 3, sh.variants[vi])))
       ELSE UnexpectedToken(pos, token, "string or object for enum")

(***************************************************************************)
(* Lists, sets, maps, arrays, tuples                                       *)
(***************************************************************************)
SetVal(v) == [t |-> "set", v |-> v]

SeqRange(s) == {s[i] : i \in 1..Len(s)}

\* the `loop` of deserialize_list / deserialize_set: item is the call that
\* pushes the element frame
list_loop(D, pos, elem, item, ops, vals) ==
    LET token == peek(D, pos) IN
    IF token.k = "Error" THEN WithOps(ops, TokenErr(pos, token))
    ELSE IF token.k = "RBracket" THEN Ok(pos + 1, ops, vals)
    ELSE LET r == deserialize_into(D, pos, elem) IN
         IF r.res # "ok" THEN WithOps(ops \o <<item>>, r)
         ELSE LET next == peek(D, r.pos)
                  ops2 == ops \o <<item>> \o r.ops \o <<"end">>
              IN IF next.k = "Error" THEN WithOps(ops2, TokenErr(r.pos, next))
                 ELSE list_loop(D, IF next.k = "Comma" THEN r.pos + 1 ELSE r.pos,
                                elem, item, ops2, Append(vals, r.val))

deserialize_list(D, pos, sh) ==
    LET token == peek(D, pos) IN
    IF token.k = "Error" THEN TokenErr(pos, token)
    ELSE IF token.k # "LBracket" THEN UnexpectedToken(pos, token, "'['")
    ELSE LET after_loop(r) == IF r.res # "ok" THEN r ELSE Ok(r.pos, r.ops, ListVal(r.val))
         IN after_loop(list_loop(D, pos + 1, sh.t, "begin_list_item",
                                 <<"begin_list">>, <<>>))

deserialize_set(D, pos, sh) ==
    LET token == peek(D, pos) IN
    IF token.k = "Error" THEN TokenErr(pos, token)
    ELSE IF token.k # "LBracket" THEN UnexpectedToken(pos, token, "'['")
    ELSE LET after_loop(r) ==
                IF r.res # "ok" THEN r ELSE Ok(r.pos, r.ops, SetVal(SeqRange(r.val)))
         IN after_loop(list_loop(D, pos + 1, sh.t, "begin_set_item",
                                 <<"begin_set">>, <<>>))

\* insertion into a map: an equal key replaces the entry
MapInsert(entries, key, val) ==
    IF \E i \in 1..Len(entries) : entries[i][1] = key
    THEN [i \in 1..Len(entries) |->
            IF entries[i][1] = key THEN <<key, val>> ELSE entries[i]]
    ELSE Append(entries, <<key, val>>)

\* begin_key, [begin_inner,] set_string_value, [end,] end
map_key(sh, key_token, pos) ==
    IF sh.key.k = "wrapper"
    THEN LET r == set_string_value(sh.key.t, key_token, pos) IN
         Then(<<"begin_key", "begin_inner">>, r, <<"end", "end">>, WrapVal(r.val))
    ELSE LET r == set_string_value(sh.key, key_token, pos) IN
         Then(<<"begin_key">>, r, <<"end">>, r.val)

map_loop(D, pos, sh, ops, entries) ==
    LET token == peek(D, pos)
        colon == peek(D, pos + 1)
    IN IF token.k = "Error" THEN WithOps(ops, TokenErr(pos, token))
       ELSE IF token.k = "RBrace" THEN Ok(pos + 1, ops, MapVal(entries))
       ELSE IF token.k # "String"
       THEN WithOps(ops, UnexpectedToken(pos, token, "string key"))
       ELSE IF colon.k = "Error" THEN WithOps(ops, TokenErr(pos + 1, colon))
       ELSE IF colon.k # "Colon"
       THEN WithOps(ops, UnexpectedToken(pos + 1, colon, "':'"))
       ELSE LET after_key(k) ==
                   IF k.res # "ok" THEN WithOps(ops, k)
                   ELSE LET v == deserialize_into(D, pos + 2, sh.val)
                            ops1 == ops \o k.ops \o <<"begin_value">>
                        IN IF v.res # "ok" THEN WithOps(ops1, v)
                           ELSE LET next == peek(D, v.pos)
                                    ops2 == ops1 \o v.ops \o <<"end">>
                                IN IF next.k = "Error"
                                   THEN WithOps(ops2, TokenErr(v.pos, next))
                                   ELSE map_loop(D,
                                           IF next.k = "Comma" THEN v.pos + 1
                                           ELSE v.pos,
                                           sh, ops2, MapInsert(entries, k.val, v.val))
            IN after_key(map_key(sh, token, pos + 2))

deserialize_map(D, pos, sh) ==
    LET token == peek(D, pos) IN
    IF token.k = "Error" THEN TokenErr(pos, token)
    ELSE IF token.k # "LBrace" THEN UnexpectedToken(pos, token, "'{'")
    ELSE map_loop(D, pos + 1, sh, <<"begin_map">>, <<>>)

\* `for i in 0..len { if i > 0 { expect ',' } begin_nth_field(i) ... end }`;
\* shapes[i] is the shape of element i, i counts from 1
fixed_loop(D, pos, shapes, i, ops, vals) ==
    IF i > Len(shapes) THEN Ok(pos, ops, vals)
    ELSE LET comma == peek(D, pos)
             p == IF i > 1 THEN pos + 1 ELSE pos
         IN IF i > 1 /\ comma.k = "Error" THEN WithOps(ops, TokenErr(pos, comma))
            ELSE IF i > 1 /\ comma.k # "Comma"
            THEN WithOps(ops, UnexpectedToken(pos, comma, "','"))
            ELSE LET r == deserialize_into(D, p, shapes[i]) IN
                 IF r.res # "ok" THEN WithOps(ops \o <<"begin_nth_field">>, r)
                 ELSE fixed_loop(D, r.pos, shapes, i + 1,
                                 ops \o <<"begin_nth_field">> \o r.ops \o <<"end">>,
                                 Append(vals, r.val))

deserialize_array(D, pos, sh) ==
    LET token == peek(D, pos) IN
    IF token.k = "Error" THEN TokenErr(pos, token)
    ELSE IF token.k # "LBracket" THEN UnexpectedToken(pos, token, "'['")
    ELSE LET after_loop(r) ==
                LET close == peek(D, r.pos) IN
                IF r.res # "ok" THEN r
                ELSE IF close.k = "Error" THEN WithOps(r.ops, TokenErr(r.pos, close))
                ELSE IF close.k = "Comma"
                THEN Err(r.pos, r.ops,
                         JsonError_new("InvalidValue",
                            "Too many elements in array, maximum "
                               \o ToString(sh.n) \o " elements",
                            close.span))
                ELSE IF close.k # "RBracket"
                THEN WithOps(r.ops, UnexpectedToken(r.pos, close, "']'"))
                ELSE Ok(r.pos + 1, r.ops, ListVal(r.val))
         IN after_loop(fixed_loop(D, pos + 1, [i \in 1..sh.n |-> sh.t], 1, <<>>, <<>>))

deserialize_tuple(D, pos, sh) ==
    LET token == peek(D, pos) IN
    IF token.k = "Error" THEN TokenErr(pos, token)
    ELSE IF token.k # "LBracket" THEN UnexpectedToken(pos, token, "'['")
    ELSE LET after_loop(r) ==
                LET close == peek(D, r.pos) IN
                IF r.res # "ok" THEN r
                ELSE IF close.k = "Error" THEN WithOps(r.ops, TokenErr(r.pos, close))
                ELSE IF close.k # "RBracket"
                THEN WithOps(r.ops, UnexpectedToken(r.pos, close, "']'"))
                ELSE Ok(r.pos + 1, r.ops, StructVal(r.val))
         IN after_loop(fixed_loop(D, pos + 1,
                                  [i \in 1..Len(sh.fields) |-> sh.fields[i].shape],
                                  1, <<>>, <<>>))

(***************************************************************************)
(* facet_solver: Schema, Solver, Configuration, as far as the flatten      *)
(* driver uses them.  A key maps to the path of the field it names, through*)
(* the flattened fields; a flattened enum contributes one key per variant. *)
(***************************************************************************)
FieldSeg(name) == [seg |-> "Field", name |-> name, variant |-> ""]

VariantSeg(parent, variant) == [seg |-> "Variant", name |-> parent, variant |-> variant]

\* the names of the model in the order of &str
NameOrder ==
    <<"0", "1", "A", "B", "a", "b", "d", "e", "email", "emial", "host", "hots",
      "inner", "leaf", "len", "n", "o", "offset", "opt", "p", "port", "span",
      "username", "value",
      "u", "x", "x1", "x12", "x2", "xa", "xb", "y", "z", "zz">>

NameRank(s) ==
    IF \E i \in 1..Len(NameOrder) : NameOrder[i] = s
    THEN CHOOSE i \in 1..Len(NameOrder) : NameOrder[i] = s
    ELSE 0

SegLess(a, b) ==
    IF a.seg # b.seg THEN a.seg = "Field"
    ELSE IF a.name # b.name THEN NameRank(a.name) < NameRank(b.name)
    ELSE NameRank(a.variant) < NameRank(b.variant)

RECURSIVE PathLess(_, _)
\* a.path.segments().cmp(b.path.segments()) = Less
PathLess(a, b) ==
    IF a = <<>> THEN b # <<>>
    ELSE IF b = <<>> THEN FALSE
    ELSE IF a[1] = b[1] THEN PathLess(Tail(a), Tail(b))
    ELSE SegLess(a[1], b[1])

RECURSIVE Schema_build(_, _, _, _)
\* the entries [key, path, optional, variant] of the fields i.. of struct sh
Schema_build(sh, prefix, optional, i) ==
    IF i > Len(sh.fields) THEN <<>>
    ELSE LET f == sh.fields[i]
             p == Append(prefix, FieldSeg(f.name))
             opt == f.shape.k = "option"
             inner == IF opt THEN f.shape.t ELSE f.shape
             here ==
                IF f.flatten /\ inner.k = "struct"
                THEN Schema_build(inner, p, optional \/ opt, 1)
                ELSE IF f.flatten /\ inner.k = "enum"
                THEN [j \in 1..Len(inner.variants) |->
                        [key |-> inner.variants[j].name,
                         path |-> Append(p, VariantSeg(f.name, inner.variants[j].name)),
                         optional |-> optional \/ opt, variant |-> j]]
                ELSE <<[key |-> f.name, path |-> p,
                        optional |-> optional \/ opt \/ f.default, variant |-> 0]>>
         IN here \o Schema_build(sh, prefix, optional, i + 1)

\* the variants of a flattened enum that the seen keys name
SeenVariants(schema, seen_keys) ==
    {schema[i].variant : i \in {j \in 1..Len(schema) :
        schema[j].variant # 0 /\ schema[j].key \in seen_keys}}

\* Solver::finish: fails unless the keys seen leave one configuration
Solver_finish_ok(schema, seen_keys) ==
    (\E i \in 1..Len(schema) : schema[i].variant # 0)
        => Cardinality(SeenVariants(schema, seen_keys)) = 1

\* the resolved Configuration
Solver_finish(schema, seen_keys) ==
    SelectSeq(schema, LAMBDA e :
        e.variant = 0 \/ e.variant \in SeenVariants(schema, seen_keys))

\* Configuration::field
Config_has(config, key) == \E i \in 1..Len(config) : config[i].key = key

Config_field(config, key) ==
    config[CHOOSE i \in 1..Len(config) :
              /\ config[i].key = key
              /\ \A j \in 1..(i - 1) : config[j].key # key]

\* first segments of Configuration::missing_optional_fields(seen_keys)
missing_first_segments(config, seen_keys) ==
    {config[i].path[1].name : i \in {j \in 1..Len(config) :
        config[j].optional /\ config[j].key \notin seen_keys}}

(***************************************************************************)
(* deserialize_struct_with_flatten                                         *)
(***************************************************************************)
RECURSIVE flatten_pass1(_, _, _)
\* PASS 1: field_positions is the sequence of <<key, value_start>>
flatten_pass1(D, pos, field_positions) ==
    LET token == peek(D, pos)
        colon == peek(D, pos + 1)
        value_tok == peek(D, pos + 2)
    IN IF token.k = "Error" THEN TokenErr(pos, token)
       ELSE IF token.k = "RBrace" THEN Ok(pos + 1, <<>>, field_positions)
       ELSE IF token.k # "String"
       THEN UnexpectedToken(pos, token, "field name or '}'")
       ELSE IF colon.k = "Error" THEN TokenErr(pos + 1, colon)
       ELSE IF colon.k # "Colon" THEN UnexpectedToken(pos + 1, colon, "':'")
       ELSE IF value_tok.k = "Error" THEN TokenErr(pos + 2, value_tok)
       ELSE LET after_value(r) ==
                   IF r.res # "ok" THEN r
                   ELSE LET next == peek(D, r.pos) IN
                        IF next.k = "Error" THEN TokenErr(r.pos, next)
                        ELSE flatten_pass1(D,
                                IF next.k = "Comma" THEN r.pos + 1 ELSE r.pos,
                                Append(field_positions,
                                       <<token.s, value_tok.span.start>>))
            IN after_value(skip_value(D, pos + 2))

RECURSIVE SortByPath(_)
\* sort_by (stable) on the path
SortByPath(s) ==
    IF s = <<>> THEN <<>>
    ELSE LET rest == SortByPath(SubSeq(s, 1, Len(s) - 1))
             x == s[Len(s)]
             k == Cardinality({i \in 1..Len(rest) : ~PathLess(x.path, rest[i].path)})
         IN SubSeq(rest, 1, k) \o <<x>> \o SubSeq(rest, k + 1, Len(rest))

\* fields_to_process with the keys taken in reverse input order
fields_to_process_reversed(config, field_positions) ==
    LET known == SelectSeq(field_positions, LAMBDA kp : Config_has(config, kp[1])) IN
    SortByPath([i \in 1..Len(known) |->
        [path |-> Config_field(config, known[Len(known) + 1 - i][1]).path,
         offset |-> known[Len(known) + 1 - i][2]]])

\* fields_to_process: the keys the configuration knows, with their offsets
fields_to_process(config, field_positions) ==
    LET known == SelectSeq(field_positions, LAMBDA kp : Config_has(config, kp[1])) IN
    SortByPath([i \in 1..Len(known) |->
        [path |-> Config_field(config, known[i][1]).path, offset |-> known[i][2]]])

\* the Field names of a path
field_segments(path) ==
    LET fs == SelectSeq(path, LAMBDA s : s.seg = "Field") IN
    [i \in 1..Len(fs) |-> fs[i].name]

RECURSIVE common_len(_, _)
common_len(open_segments, names) ==
    IF open_segments = <<>> \/ names = <<>> THEN 0
    ELSE IF open_segments[1].name # names[1] THEN 0
    ELSE 1 + common_len(Tail(open_segments), Tail(names))

RECURSIVE close_segments(_, _)
\* `while open_segments.len() > keep { pop; [end;] end }`
close_segments(open_segments, keep) ==
    IF Len(open_segments) <= keep THEN <<>>
    ELSE (IF open_segments[Len(open_segments)].is_option
          THEN <<"end", "end">> ELSE <<"end">>)
         \o close_segments(SubSeq(open_segments, 1, Len(open_segments) - 1), keep)

RECURSIVE open_new_segments(_)
open_new_segments(segs) ==
    IF segs = <<>> THEN <<>>
    ELSE (IF segs[1].is_option THEN <<"begin_field", "begin_some">>
          ELSE <<"begin_field">>)
         \o open_new_segments(Tail(segs))

RECURSIVE ShapeAt(_, _)
\* wip.shape() after begin_field along names, entering an Option by begin_some
ShapeAt(sh, names) ==
    IF names = <<>> THEN sh
    ELSE LET s == IF sh.k = "option" THEN sh.t ELSE sh IN
         ShapeAt(s.fields[FieldIndex(s.fields, names[1])].shape, Tail(names))

RECURSIVE SetAt(_, _, _, _)
\* the value val of shape sh with v stored at the end of names
SetAt(val, sh, names, v) ==
    IF names = <<>> THEN (IF sh.k = "option" THEN SomeVal(v) ELSE v)
    ELSE IF sh.k = "option"
    THEN SomeVal(SetAt(IF val.t = "some" THEN val.v ELSE NoVal, sh.t, names, v))
    ELSE LET idx == FieldIndex(sh.fields, names[1])
             cur == IF val.t = "struct" THEN val.f ELSE Unset(Len(sh.fields))
         IN StructVal([cur EXCEPT
                ![idx] = SetAt(cur[idx], sh.fields[idx].shape, Tail(names), v)])

\* the segments to open for names beyond the first keep, with is_option as
\* `matches!(wip.shape().def, Def::Option(_))` finds it after begin_field
opened_segments(sh, names, keep) ==
    [j \in 1..(Len(names) - keep) |->
        [name |-> names[keep + j],
         is_option |-> ShapeAt(sh, SubSeq(names, 1, keep + j)).k = "option"]]

\* an index into the tokens of the sub-deserializer as an index into D's
SubPos(D, sub, p) == p + Len(D.toks) - Len(sub.toks)

SubResult(D, sub, r) == [r EXCEPT !.pos = SubPos(D, sub, r.pos)]

RECURSIVE flatten_replay(_, _, _, _, _, _)
\* PASS 2, `for (field_info, offset) in &fields_to_process` from index i;
\* st = [open (open_segments), ops, val]; the result carries open in `open`
flatten_replay(D, sh, ftp, i, pos, st) ==
    IF i > Len(ftp)
    THEN Ok(pos, st.ops \o close_segments(st.open, 0), st.val)
    ELSE LET segments == ftp[i].path
             names == field_segments(segments)
             keep == common_len(st.open, names)
             opened == opened_segments(sh, names, keep)
             last == segments[Len(segments)]
             \* the shape whose value the sub-deserializer reads: inside the
             \* Some of an Option field
             unwrap_option(raw) == IF raw.k = "option" THEN raw.t ELSE raw
             next_field(open, ops, val) ==
                flatten_replay(D, sh, ftp, i + 1, pos,
                               [open |-> open, ops |-> ops, val |-> val])
             \* the value read by the sub-deserializer: of a variant, of a
             \* nested field, of a field of the struct itself
             variant_value(open2, ops2, sub, r) ==
                IF r.res # "ok" THEN WithOps(ops2, SubResult(D, sub, r))
                ELSE next_field(open2, ops2 \o r.ops,
                                SetAt(st.val, sh, names,
                                      VariantVal(last.variant, r.val)))
             nested_value(open2, ops1, sub, r) ==
                IF r.res # "ok" THEN WithOps(ops1, SubResult(D, sub, r))
                ELSE next_field(SubSeq(open2, 1, Len(open2) - 1),
                                ops1 \o r.ops \o
                                (IF open2[Len(open2)].is_option
                                 THEN <<"end", "end">> ELSE <<"end">>),
                                SetAt(st.val, sh, names, r.val))
             root_value(open2, ops1, sub, r) ==
                IF r.res # "ok" THEN WithOps(ops1, SubResult(D, sub, r))
                ELSE next_field(open2, ops1 \o r.ops, r.val)
             \* `let mut sub = Self::from_offset(self.input, offset)`
             replay(open2, ops1, target, sub) ==
                IF last.seg = "Variant"
                THEN variant_value(open2, ops1 \o <<"select_variant_named">>, sub,
                        deserialize_variant_struct_content(sub, 1,
                           target.variants[VariantIndex(target.variants,
                                                        last.variant)]))
                ELSE IF open2 # <<>>
                THEN nested_value(open2, ops1, sub, deserialize_into(sub, 1, target))
                ELSE root_value(open2, ops1, sub, deserialize_into(sub, 1, sh))
         IN replay(SubSeq(st.open, 1, keep) \o opened,
                   st.ops \o close_segments(st.open, keep)
                          \o open_new_segments(opened),
                   unwrap_option(ShapeAt(sh, names)),
                   from_offset(D.input, ftp[i].offset))

\* set_missing_optional that leaves the missing fields as they are
set_missing_optional_unset(sh, names, r) == r

RECURSIVE set_missing_optional(_, _, _)
\* `for first_field in missing_first_segments` (a BTreeSet: in &str order),
\* names being those not among the processed first segments
set_missing_optional(sh, names, r) ==
    IF names = <<>> THEN r
    ELSE LET f == sh.fields[FieldIndex(sh.fields, names[1])] IN
         set_missing_optional(sh, Tail(names),
            IF f.shape.k = "option"
            THEN Ok(r.pos, r.ops \o <<"begin_field", "set_default", "end">>,
                    StructVal([r.val.f EXCEPT
                        ![FieldIndex(sh.fields, names[1])] = NoneVal]))
            ELSE Ok(r.pos, r.ops \o <<"begin_field", "end">>, r.val))

\* PASS 2 and the missing optional fields, for the configuration the solver
\* resolved
flatten_resolved(D, sh, pos, config, seen_keys, ftp) ==
    LET processed_first_segments == {ftp[i].path[1].name : i \in 1..Len(ftp)}
        missing == missing_first_segments(config, seen_keys)
                      \ processed_first_segments
        after_replay(r) ==
           IF r.res # "ok" THEN r
           ELSE set_missing_optional(sh,
                   SelectSeq(NameOrder, LAMBDA n : n \in missing), r)
    IN after_replay(flatten_replay(D, sh, ftp, 1, pos,
                       [open |-> <<>>, ops |-> <<>>,
                        val |-> StructVal(Unset(Len(sh.fields)))]))

\* `solver.finish()` on the keys PASS 1 (p1) saw, then the replay
flatten_solve(D, sh, schema, p1) ==
    LET field_positions == p1.val
        seen_keys == {field_positions[i][1] : i \in 1..Len(field_positions)}
        config == Solver_finish(schema, seen_keys)
    IN IF p1.res # "ok" THEN p1
       ELSE IF ~Solver_finish_ok(schema, seen_keys)
       THEN Err(p1.pos - 1, <<>>, without_span("Solver", "no match"))
       ELSE flatten_resolved(D, sh, p1.pos, config, seen_keys,
                             fields_to_process(config, field_positions))

deserialize_struct_with_flatten(D, pos, sh) ==
    LET token == peek(D, pos)
        schema == Schema_build(sh, <<>>, FALSE, 1)
    IN IF token.k = "Error" THEN TokenErr(pos, token)
       ELSE IF token.k # "LBrace" THEN UnexpectedToken(pos, token, "'{'")
       ELSE flatten_solve(D, sh, schema, flatten_pass1(D, pos + 1, <<>>))

(***************************************************************************)
(* from_str, from_slice, from_slice_inner                                  *)
(***************************************************************************)
\* the byte order mark EF BB BF as a lexeme of the text
LBom == Lx("bom", 0, FALSE, "", FALSE, 0)

starts_with_bom(lex) == lex # <<>> /\ lex[1].k = "bom"

RECURSIVE FullyInit(_)
\* Partial::build succeeds when nothing of the value is left unset
FullyInit(v) ==
    CASE v.t = "unset" -> FALSE
      [] v.t \in {"struct", "variant"} -> \A i \in 1..Len(v.f) : FullyInit(v.f[i])
      [] v.t = "list" -> \A i \in 1..Len(v.v) : FullyInit(v.v[i])
      [] v.t = "map" -> \A i \in 1..Len(v.v) : FullyInit(v.v[i][2])
      [] v.t \in {"some", "ptr", "wrap"} -> FullyInit(v.v)
      [] OTHER -> TRUE

wip_build(r) ==
    IF FullyInit(r.val) THEN r
    ELSE Err(r.pos - 1, r.ops, FromReflectError("uninitialized"))

AttachSource(r, source) ==
    IF r.res = "err" /\ source # None
    THEN [r EXCEPT !.err.source_code = source]
    ELSE r

\* lex is the input as the tokenizer gets it, source is None or Some(text)
from_slice_inner(lex, source, sh) ==
    LET deserializer == JsonDeserializer_new(lex)
        finish(result) ==
           LET trailing == peek(deserializer, result.pos) IN
           IF ~IsSized(sh) THEN Err(0, <<>>, FromReflectError("unsized"))
           ELSE IF result.res # "ok" THEN AttachSource(result, source)
           ELSE IF trailing.k = "Error"
           THEN WithOps(result.ops, TokenErr(result.pos, trailing))
           ELSE IF trailing.k # "Eof"
           THEN AttachSource(WithOps(result.ops,
                    UnexpectedToken(result.pos, trailing, "end of input")), source)
           ELSE AttachSource(wip_build(result), source)
    IN finish(deserialize_into(deserializer, 1, sh))

from_slice(lex, sh) == from_slice_inner(lex, None, sh)

\* from_str that attaches the text it was given, BOM included
from_str_whole_source(lex, sh) ==
    LET input == IF starts_with_bom(lex) THEN Tail(lex) ELSE lex IN
    from_slice_inner(input, Some(lex), sh)

from_str(lex, sh) ==
    LET input == IF starts_with_bom(lex) THEN Tail(lex) ELSE lex IN
    from_slice_inner(input, Some(input), sh)

(***************************************************************************)
(* The serializer (src/src/serialize.rs), compact output                   *)
(***************************************************************************)
\* the strings of the model that write_json_string writes with an escape
NeedsEscape(s) == s \in {"a\"b"}

\* crate::write_json_string
write_json_string(s) == IF NeedsEscape(s) THEN LEsc(s) ELSE LStr(s)

variant_is_newtype_like(variant) ==
    variant.kind = "Tuple" /\ Len(variant.fields) = 1

RECURSIVE JoinComma(_)
\* the parts with b"," written before every part but the first
JoinComma(parts) ==
    IF parts = <<>> THEN <<>>
    ELSE IF Len(parts) = 1 THEN parts[1]
    ELSE parts[1] \o <<P(",")>> \o JoinComma(Tail(parts))

serialize_scalar(v) ==
    CASE v.t = "bool" -> <<IF v.b THEN P("true") ELSE P("false")>>
      [] v.t = "str" -> <<write_json_string(v.s)>>
      [] v.t = "int" -> <<LInt(v.n)>>
      [] v.t = "float" -> <<LFloat(v.n, v.frac)>>
      [] OTHER -> <<P("null")>>

\* itoa / as_str between quotes
serialize_map_key(key) ==
    LET k == IF key.t = "wrap" THEN key.v ELSE key IN
    IF k.t = "str" THEN <<write_json_string(k.s)>>
    ELSE <<LStr(ToString(k.n))>>

RECURSIVE SetToSeq(_)
\* the items of a set in the order its iterator gives them
SetToSeq(S) ==
    IF S = {} THEN <<>>
    ELSE LET x == CHOOSE x \in S : TRUE IN <<x>> \o SetToSeq(S \ {x})

\* PeekPointer::borrow_inner is Some: the pointer has a borrow function
\* (Box, Arc, Rc and references have one, the Weak pointers have none)
borrow_inner(sh) == sh.known \notin {"ArcWeak", "RcWeak"}

\* panic!: the call unwinds, nothing of its output is returned; the mark in
\* the output stands for the unwinding
Panic == Lx("panic", 0, FALSE, "", FALSE, 0)

Panicked(out) == \E i \in 1..Len(out) : out[i] = Panic

RECURSIVE serialize_value(_, _, _)
RECURSIVE serialize_enum_content(_, _)
RECURSIVE fields_for_serialize(_, _)

\* PeekStruct::fields_for_serialize: <<field, value>> in declared order, the
\* fields of a flattened struct in place of the struct
fields_for_serialize(fields, vals) ==
    IF fields = <<>> THEN <<>>
    ELSE LET f == fields[1]
             v == vals[1]
             here ==
                IF f.flatten /\ f.shape.k = "struct"
                THEN fields_for_serialize(f.shape.fields, v.f)
                ELSE IF f.flatten /\ f.shape.k = "option" /\ f.shape.t.k = "struct"
                THEN (IF v.t = "some"
                      THEN fields_for_serialize(f.shape.t.fields, v.v.f)
                      ELSE <<>>)
                ELSE <<<<f, v>>>>
         IN here \o fields_for_serialize(Tail(fields), Tail(vals))

\* `"name": value` for each pair, between braces
serialize_members(pairs) ==
    <<P("{")>>
    \o JoinComma([i \in 1..Len(pairs) |->
          <<write_json_string(pairs[i][1].name), P(":")>>
          \o serialize_value(pairs[i][2], pairs[i][1].shape, Some(pairs[i][1]))])
    \o <<P("}")>>

\* each value, between brackets
serialize_fields_array(pairs) ==
    <<P("[")>>
    \o JoinComma([i \in 1..Len(pairs) |->
          serialize_value(pairs[i][2], pairs[i][1].shape, Some(pairs[i][1]))])
    \o <<P("]")>>

serialize_array(items, elem) ==
    <<P("[")>>
    \o JoinComma([i \in 1..Len(items) |-> serialize_value(items[i], elem, None)])
    \o <<P("]")>>

\* v is the enum value, variant its active variant
serialize_enum_content(v, variant) ==
    LET pairs == fields_for_serialize(variant.fields, v.f) IN
    IF variant.fields = <<>> THEN <<P("null")>>
    ELSE IF variant_is_newtype_like(variant)
    THEN serialize_value(pairs[1][2], pairs[1][1].shape, Some(pairs[1][1]))
    ELSE IF variant.kind \in {"Tuple", "TupleStruct"}
    THEN serialize_fields_array(pairs)
    ELSE serialize_members(pairs)

\* serialize_enum looking at the tag before `untagged`
serialize_enum_tag_first(v, sh, maybe_field) ==
    LET variant == sh.variants[VariantIndex(sh.variants, v.name)]
        pairs == fields_for_serialize(variant.fields, v.f)
        flattened == maybe_field # None /\ maybe_field[1].flatten
        is_untagged == sh.untagged
        tag_field == sh.tag
        content_field == sh.content
    IN IF is_untagged /\ tag_field = None THEN serialize_enum_content(v, variant)
       ELSE IF tag_field # None /\ content_field # None
       THEN <<P("{"), write_json_string(tag_field[1]), P(":"),
              write_json_string(v.name)>>
            \o (IF variant.fields # <<>>
                THEN <<P(","), write_json_string(content_field[1]), P(":")>>
                     \o serialize_enum_content(v, variant)
                ELSE <<>>)
            \o <<P("}")>>
       ELSE IF tag_field # None
       THEN <<P("{"), write_json_string(tag_field[1]), P(":"),
              write_json_string(v.name)>>
            \o (IF pairs = <<>> THEN <<>>
                ELSE <<P(",")>> \o
                     JoinComma([i \in 1..Len(pairs) |->
                        <<write_json_string(pairs[i][1].name), P(":")>>
                        \o serialize_value(pairs[i][2], pairs[i][1].shape,
                                           Some(pairs[i][1]))]))
            \o <<P("}")>>
       ELSE IF variant.fields = <<>> THEN <<write_json_string(v.name)>>
       ELSE IF flattened THEN serialize_enum_content(v, variant)
       ELSE <<P("{"), write_json_string(v.name), P(":")>>
            \o serialize_enum_content(v, variant) \o <<P("}")>>

serialize_enum(v, sh, maybe_field) ==
    LET variant == sh.variants[VariantIndex(sh.variants, v.name)]
        pairs == fields_for_serialize(variant.fields, v.f)
        flattened == maybe_field # None /\ maybe_field[1].flatten
        is_untagged == sh.untagged
        tag_field == sh.tag
        content_field == sh.content
    IN IF is_untagged THEN serialize_enum_content(v, variant)
       ELSE IF tag_field # None /\ content_field # None
       THEN <<P("{"), write_json_string(tag_field[1]), P(":"),
              write_json_string(v.name)>>
            \o (IF variant.fields # <<>>
                THEN <<P(","), write_json_string(content_field[1]), P(":")>>
                     \o serialize_enum_content(v, variant)
                ELSE <<>>)
            \o <<P("}")>>
       ELSE IF tag_field # None
       THEN <<P("{"), write_json_string(tag_field[1]), P(":"),
              write_json_string(v.name)>>
            \o (IF pairs = <<>> THEN <<>>
                ELSE <<P(",")>> \o
                     JoinComma([i \in 1..Len(pairs) |->
                        <<write_json_string(pairs[i][1].name), P(":")>>
                        \o serialize_value(pairs[i][2], pairs[i][1].shape,
                                           Some(pairs[i][1]))]))
            \o <<P("}")>>
       ELSE IF variant.fields = <<>> THEN <<write_json_string(v.name)>>
       ELSE IF flattened THEN serialize_enum_content(v, variant)
       ELSE <<P("{"), write_json_string(v.name), P(":")>>
            \o serialize_enum_content(v, variant) \o <<P("}")>>

serialize_value(v, sh, maybe_field) ==
    IF sh.k = "wrapper" THEN serialize_value(v.v, sh.t, maybe_field)
    ELSE IF sh.k = "scalar" THEN serialize_scalar(v)
    ELSE IF sh.k \in {"list", "array", "slice"} THEN serialize_array(v.v, sh.t)
    ELSE IF sh.k = "map"
    THEN <<P("{")>>
         \o JoinComma([i \in 1..Len(v.v) |->
               serialize_map_key(v.v[i][1]) \o <<P(":")>>
               \o serialize_value(v.v[i][2], sh.val, None)])
         \o <<P("}")>>
    ELSE IF sh.k = "set" THEN serialize_array(SetToSeq(v.v), sh.t)
    ELSE IF sh.k = "option"
    THEN (IF v.t = "some" THEN serialize_value(v.v, sh.t, None) ELSE <<P("null")>>)
    ELSE IF sh.k = "pointer"
    THEN (IF ~borrow_inner(sh) THEN <<Panic>>
          ELSE IF v.t = "str" THEN serialize_scalar(v)
          ELSE serialize_value(v.v, IF sh.t.k = "str" THEN StringShape ELSE sh.t, None))
    ELSE IF sh.k = "struct"
    THEN (IF sh.kind = "Unit" THEN <<P("null")>>
          ELSE IF sh.kind \in {"Tuple", "TupleStruct"}
          THEN serialize_fields_array(fields_for_serialize(sh.fields, v.f))
          ELSE serialize_members(fields_for_serialize(sh.fields, v.f)))
    ELSE IF sh.k = "enum" THEN serialize_enum(v, sh, maybe_field)
    ELSE <<P("null")>>

\* to_string: serialize_value(peek, None, &mut writer, None, 0)
to_string(v, sh) == serialize_value(v, sh, None)

(***************************************************************************)
(* The types T of the model                                                *)
(***************************************************************************)
I8 == IntShape(TRUE, 1)

U8 == IntShape(FALSE, 1)

I16 == IntShape(TRUE, 2)

U16 == IntShape(FALSE, 2)

I32 == IntShape(TRUE, 4)

U32 == IntShape(FALSE, 4)

I64 == IntShape(TRUE, 8)

U64 == IntShape(FALSE, 8)

I128 == IntShape(TRUE, 16)

U128 == IntShape(FALSE, 16)

IntShapes == {I8, U8, I16, U16, I32, U32, I64, U64, I128, U128}

F64 == FloatShape(8)

F32 == FloatShape(4)

\* struct Config { host: String, port: u16 }
HostPort ==
    StructShape("Struct", <<Fld("host", StringShape), Fld("port", U16)>>, FALSE, FALSE)

\* struct { #[facet(default)] a: u8, #[facet(default = f())] b: u8, x: u8, y: u8 }
WithDefaults ==
    StructShape("Struct",
        <<[Fld("a", U8) EXCEPT !.default = TRUE],
          [Fld("b", U8) EXCEPT !.default_fn = TRUE],
          Fld("x", U8), Fld("y", U8)>>, FALSE, FALSE)

\* enum Mode { A, B } has no Default
Mode == EnumShape(<<Variant("A", "Unit", <<>>), Variant("B", "Unit", <<>>)>>, "external")

\* #[facet(default)] struct { a: u8, e: Mode }
StructDefault ==
    StructShape("Struct", <<Fld("a", U8), Fld("e", Mode)>>, FALSE, TRUE)

\* #[facet(deny_unknown_fields)] struct { username: String, email: String }
UserEmail ==
    StructShape("Struct",
        <<Fld("username", StringShape), Fld("email", StringShape)>>, TRUE, FALSE)

\* #[facet(deny_unknown_fields)] struct { xa: u8, xb: u8, x12: u8 }
DenyTie ==
    StructShape("Struct", <<Fld("xa", U8), Fld("xb", U8), Fld("x12", U8)>>,
                TRUE, FALSE)

\* struct { value: u8, span: u8 }
ValueSpan ==
    StructShape("Struct", <<Fld("value", U8), Fld("span", U8)>>, FALSE, FALSE)

\* struct Span { offset: usize, len: usize }
SpanShape ==
    StructShape("Struct", <<Fld("offset", U64), Fld("len", U64)>>, FALSE, FALSE)

\* struct Spanned<u8> { value: u8, span: Span }
SpannedU8 ==
    StructShape("Struct", <<Fld("value", U8), Fld("span", SpanShape)>>, FALSE, FALSE)

\* enum E { Unit, New(u8), Pair(u8, bool), Rec { x: u8 } }
E4 ==
    EnumShape(<<Variant("Unit", "Unit", <<>>),
                Variant("New", "Tuple", <<Fld("0", U8)>>),
                Variant("Pair", "Tuple", <<Fld("0", U8), Fld("1", BoolShape)>>),
                Variant("Rec", "Struct", <<Fld("x", U8)>>)>>, "external")

VecU8 == ListShape(U8)

OptU8 == OptionShape(U8)

BoxU8 == PointerShape("Box", U8)

ArcHostPort == PointerShape("Arc", HostPort)

RcString == PointerShape("Rc", StringShape)

ArcSlice == PointerShape("Arc", SliceShape(U8))

BoxStr == PointerShape("Box", StrShape)

StrRef == PointerShape("SharedReference", StrShape)

RefU8 == PointerShape("SharedReference", U8)

MapStrU8 == MapShape(StringShape, U8)

MapRefU8 == MapShape(StrRef, U8)

SetU8 == SetShape(U8)

Array2 == ArrayShape(U8, 2)

\* (u8, bool)
Tuple2 == StructShape("Tuple", <<Fld("0", U8), Fld("1", BoolShape)>>, FALSE, FALSE)

\* #[facet(transparent)] struct UserId(String)
UserId == WrapperShape(StringShape)

\* struct { #[facet(deserialize_with = ...)] a: u8 }, the hook taking a String
WithHook ==
    StructShape("Struct", <<[Fld("a", U8) EXCEPT !.with = Some(StringShape)]>>,
                FALSE, FALSE)

\* struct { opt: Option<u8>, e: E, items: Vec<u8> }
Mixed ==
    StructShape("Struct",
        <<Fld("opt", OptU8), Fld("e", E4), Fld("items", VecU8)>>, FALSE, FALSE)

Inner == StructShape("Struct", <<Fld("x", U8), Fld("y", U8)>>, FALSE, FALSE)

\* struct { z: u8, #[facet(flatten)] inner: Inner }
Outer ==
    StructShape("Struct",
        <<Fld("z", U8), [Fld("inner", Inner) EXCEPT !.flatten = TRUE]>>, FALSE, FALSE)

\* struct { a: u8, #[facet(flatten)] opt: Option<Inner> }
OuterOpt ==
    StructShape("Struct",
        <<Fld("a", U8), [Fld("opt", OptionShape(Inner)) EXCEPT !.flatten = TRUE]>>,
        FALSE, FALSE)

\* enum { A { x: u8 }, B(u8) }
EAB ==
    EnumShape(<<Variant("A", "Struct", <<Fld("x", U8)>>),
                Variant("B", "Tuple", <<Fld("0", U8)>>)>>, "external")

\* struct { #[facet(flatten)] e: EAB }
OuterEnum ==
    StructShape("Struct", <<[Fld("e", EAB) EXCEPT !.flatten = TRUE]>>, FALSE, FALSE)

\* struct BorrowedStr<'a> { name: &'a str }
BorrowedStr == StructShape("Struct", <<Fld("name", StrRef)>>, FALSE, FALSE)

\* struct CowStr<'a> { name: Cow<'a, str> }
CowStr == StructShape("Struct", <<Fld("name", CowShape)>>, FALSE, FALSE)

\* struct { name: String }
OwnedStr == StructShape("Struct", <<Fld("name", StringShape)>>, FALSE, FALSE)

\* HashMap<Cow<str>, u8>
MapCowU8 == MapShape(CowShape, U8)

\* HashMap<String, u16>
MapStringU16 == MapShape(StringShape, U16)

\* the variants of E with #[facet(untagged)], with #[facet(tag = "tag",
\* content = "content")], with #[facet(tag = "tag")]
E4Untagged == EnumShape(E4.variants, "untagged")

E4Adjacent == EnumShape(E4.variants, "adjacent")

E4Internal == EnumShape(E4.variants, "internal")

\* #[facet(type_tag = "type")] enum { SYMBOL { name: String } }
RuleLeaf ==
    [EnumShape(<<Variant("SYMBOL", "Struct", <<Fld("name", StringShape)>>)>>,
               "external")
     EXCEPT !.type_tag = Some("type")]

\* #[facet(type_tag = "type")]
\* enum { REPEAT { content: Box<RuleLeaf> }, SYMBOL { name: String } }
Rule ==
    [EnumShape(<<Variant("REPEAT", "Struct",
                        <<Fld("content", PointerShape("Box", RuleLeaf))>>),
                Variant("SYMBOL", "Struct", <<Fld("name", StringShape)>>)>>,
               "external")
     EXCEPT !.type_tag = Some("type")]

\* struct { z: u8, #[facet(flatten)] opt: Option<Inner> }
OptFlat ==
    StructShape("Struct",
        <<Fld("z", U8), [Fld("opt", OptionShape(Inner)) EXCEPT !.flatten = TRUE]>>,
        FALSE, FALSE)

\* [i32; 2]
ArrayI32x2 == ArrayShape(I32, 2)

\* (i32, i32)
TupleI32x2 == StructShape("Tuple", <<Fld("0", I32), Fld("1", I32)>>, FALSE, FALSE)

\* HashMap<u8, u8>
MapU8U8 == MapShape(U8, U8)

\* struct Pair(u8, bool), not transparent
PairStruct ==
    StructShape("TupleStruct", <<Fld("0", U8), Fld("1", BoolShape)>>, FALSE, FALSE)

\* struct { id: u8, parent: std::sync::Weak<u8> }
Node ==
    StructShape("Struct",
        <<Fld("id", U8), Fld("parent", PointerShape("ArcWeak", U8))>>,
        FALSE, FALSE)

\* #[facet(untagged, tag = "tag", content = "content")]
E4UntaggedTag == [E4Adjacent EXCEPT !.untagged = TRUE]

\* #[facet(content = "content")] without a tag
E4ContentOnly == [E4 EXCEPT !.content = Some(ContentName)]

\* struct { p: u8 }
Leaf == StructShape("Struct", <<Fld("p", U8)>>, FALSE, FALSE)

\* struct { #[facet(flatten)] leaf: Leaf }
Mid ==
    StructShape("Struct", <<[Fld("leaf", Leaf) EXCEPT !.flatten = TRUE]>>,
                FALSE, FALSE)

\* struct { n: Mid, #[facet(flatten)] opt: Option<Inner> }
TopNested ==
    StructShape("Struct",
        <<Fld("n", Mid), [Fld("opt", OptionShape(Inner)) EXCEPT !.flatten = TRUE]>>,
        FALSE, FALSE)

\* struct { o: Option<u8>, #[facet(flatten)] inner: Inner }
FlatOpt ==
    StructShape("Struct",
        <<Fld("o", OptU8), [Fld("inner", Inner) EXCEPT !.flatten = TRUE]>>,
        FALSE, FALSE)

\* struct { o: Option<u8>, x: u8, y: u8 }: the same members, nothing flattened
PlainOpt ==
    StructShape("Struct", <<Fld("o", OptU8), Fld("x", U8), Fld("y", U8)>>,
                FALSE, FALSE)

\* struct { x: u8, #[facet(default)] d: u8 }
Body ==
    StructShape("Struct", <<Fld("x", U8), [Fld("d", U8) EXCEPT !.default = TRUE]>>,
                FALSE, FALSE)

\* #[facet(deny_unknown_fields)] on Body
BodyDeny == [Body EXCEPT !.deny = TRUE]

\* enum { A { x: u8, #[facet(default)] d: u8 } }
EnumBody ==
    [deny |-> FALSE] @@ EnumShape(<<Variant("A", "Struct", Body.fields)>>, "external")

\* #[facet(deny_unknown_fields)] on EnumBody
EnumBodyDeny == [EnumBody EXCEPT !.deny = TRUE]

\* Vec<u16>, Arc<[u16]>, a set of u16
VecU16 == ListShape(U16)

ArcSliceU16 == PointerShape("Arc", SliceShape(U16))

SetU16 == SetShape(U16)

\* the types whose input is written piece by piece
TypedShapes ==
    {I32, HostPort, WithDefaults, StructDefault, UserEmail, DenyTie, Outer,
     OuterOpt, OuterEnum, MapRefU8}

\* the types whose input is what to_string writes, and one more piece
SerializedShapes ==
    IntShapes \cup
    {BoolShape, StringShape, F64, HostPort, ValueSpan, E4, VecU8, OptU8, BoxU8,
     ArcHostPort, RcString, ArcSlice, MapStrU8, SetU8, Array2, Tuple2, UserId,
     Mixed, Outer, OuterOpt}

RootShapes ==
    TypedShapes \cup SerializedShapes
    \cup {WithHook, BoxStr, StrRef, RefU8, SpannedU8, OpaqueShape}

\* the types of the second program: string targets, and the enums under
\* every tagging
FormTypedShapes ==
    {BorrowedStr, CowStr, OwnedStr, MapRefU8, MapCowU8, MapStringU16, Rule,
     OuterOpt, OptFlat, ArrayI32x2, TupleI32x2}

FormSerializedShapes ==
    {E4, E4Untagged, E4Adjacent, E4Internal, E4UntaggedTag, E4ContentOnly,
     PairStruct, MapU8U8, Node}

FormShapes == FormTypedShapes \cup FormSerializedShapes

\* the types of the third program: structs with and without flattened
\* fields, enums with struct variants, lists
MemberShapes ==
    {TopNested, Outer, OptFlat, FlatOpt, PlainOpt, EnumBody, EnumBodyDeny,
     VecU16, ArcSliceU16, SetU16, MapStringU16, Leaf, Mid}

WrittenShapes == TypedShapes \cup FormTypedShapes \cup MemberShapes

ToStringShapes == SerializedShapes \cup FormSerializedShapes

(***************************************************************************)
(* Values of the types, as the caller of to_string may hold them          *)
(***************************************************************************)
RECURSIVE Values(_)
RECURSIVE Products(_)

\* the tuples of values of the shapes
Products(shapes) ==
    IF shapes = <<>> THEN {<<>>}
    ELSE {<<v>> \o rest : v \in Values(shapes[1]), rest \in Products(Tail(shapes))}

FieldShapes(fields) == [i \in 1..Len(fields) |-> fields[i].shape]

Values(sh) ==
    CASE sh.k = "scalar" /\ sh.ty = "int" ->
           {IntVal(IntMin(sh.signed, sh.size)), IntVal(IntMax(sh.signed, sh.size))}
      [] sh.k = "scalar" /\ sh.ty = "float" -> {FloatVal(1, FALSE), FloatVal(1, TRUE)}
      [] sh.k = "scalar" /\ sh.ty = "bool" -> {BoolVal(TRUE), BoolVal(FALSE)}
      [] sh.k = "scalar" /\ sh.ty \in {"String", "Cow"} ->
           {StrVal("localhost", FALSE), StrVal("a\"b", FALSE)}
      [] sh.k = "option" -> {NoneVal} \cup {SomeVal(v) : v \in Values(sh.t)}
      [] sh.k \in {"list", "slice"} ->
           {ListVal(<<>>)} \cup {ListVal(<<v>>) : v \in Values(sh.t)}
           \cup {ListVal(<<v, w>>) : v \in Values(sh.t), w \in Values(sh.t)}
      [] sh.k = "array" -> {ListVal(s) : s \in Products([i \in 1..sh.n |-> sh.t])}
      [] sh.k = "set" ->
           {SetVal({})} \cup {SetVal({v}) : v \in Values(sh.t)}
      [] sh.k = "map" ->
           {MapVal(<<>>)}
           \cup {MapVal(<<<<key, v>>>>) : key \in Values(sh.key), v \in Values(sh.val)}
      [] sh.k = "struct" -> {StructVal(f) : f \in Products(FieldShapes(sh.fields))}
      [] sh.k = "enum" ->
           UNION {{VariantVal(sh.variants[i].name, f) :
                      f \in Products(FieldShapes(sh.variants[i].fields))} :
                  i \in 1..Len(sh.variants)}
      [] sh.k = "pointer" /\ sh.t.k = "str" -> {PtrVal(StrVal("localhost", FALSE))}
      [] sh.k = "pointer" -> {PtrVal(v) : v \in Values(sh.t)}
      [] sh.k = "wrapper" -> {WrapVal(v) : v \in Values(sh.t)}
      [] OTHER -> {}

\* at the root every integer of the type
RootValues(sh) ==
    IF sh \in IntShapes
    THEN {IntVal(n) : n \in IntMin(sh.signed, sh.size)..IntMax(sh.signed, sh.size)}
    ELSE Values(sh)

(***************************************************************************)
(* The pieces an input is written from                                     *)
(***************************************************************************)
RECURSIVE Lexemes(_)
\* the lexemes of a text
Lexemes(pieces) ==
    IF pieces = <<>> THEN <<>> ELSE pieces[1] \o Lexemes(Tail(pieces))

Member(key, v) == <<LStr(key), P(":")>> \o v

Members(keys, vals) == {Member(key, v) : key \in keys, v \in vals}

Braces == {<<P("{")>>, <<P("}")>>, <<P(",")>>}

\* {"A":{ and }}, around the members of the body of variant A
VariantOpen == <<P("{"), LStr("A"), P(":"), P("{")>>

VariantClose == <<P("}"), P("}")>>

\* {"type": "SYMBOL", "name": name}
SymbolObject(name) ==
    <<P("{"), LStr("type"), P(":"), LStr("SYMBOL"), P(","),
      LStr("name"), P(":"), LStr(name), P("}")>>

\* {"type": "REPEAT", "content": content}
RepeatObject(content) ==
    <<P("{"), LStr("type"), P(":"), LStr("REPEAT"), P(","),
      LStr("content"), P(":")>> \o content \o <<P("}")>>

Pieces(sh) ==
    CASE sh = I32 ->
           {<<LInt(4)>>, <<LInt(9)>>, <<Sp(LBad("extra stuff"))>>, <<Sp(LInt(1))>>,
            <<LFloat(1, FALSE)>>, <<LFloat(1, TRUE)>>, <<LStr("a")>>, <<P("null")>>,
            <<P(",")>>, <<LBom>>, <<P("{")>>}
      [] sh = HostPort ->
           Braces
           \cup Members({"host", "port"}, {<<LStr("localhost")>>, <<LInt(1)>>})
           \cup Members({"hots"},
                        {<<LInt(1)>>, <<P("[")>>, <<P("["), LInt(1), P("]")>>})
           \cup {<<P("]")>>, <<LBad("nope")>>}
      [] sh = WithDefaults -> Braces \cup Members({"a", "b", "x", "y"}, {<<LInt(1)>>})
      [] sh = StructDefault ->
           Braces \cup Members({"a", "e"}, {<<LInt(1)>>, <<LStr("A")>>})
      [] sh = UserEmail ->
           Braces \cup Members({"username", "email", "emial"}, {<<LStr("a")>>})
      [] sh = DenyTie -> Braces \cup Members({"xa", "x1", "x2", "zz"}, {<<LInt(1)>>})
      [] sh = Outer ->
           Braces
           \cup Members({"x", "y", "z"}, {<<LInt(1)>>})
           \cup Members({"u"},
                        {<<LInt(1)>>, <<P("[")>>, <<P("["), LInt(1), P("]")>>})
           \cup {<<P("]")>>}
      [] sh = OuterOpt ->
           Braces \cup Members({"a", "x", "y"}, {<<LInt(1)>>, <<P("null")>>})
      [] sh = OuterEnum ->
           Braces
           \cup Members({"A", "B", "u"},
                        {<<LInt(1)>>, <<P("{"), LStr("x"), P(":"), LInt(1), P("}")>>})
      [] sh = MapRefU8 ->
           Braces \cup Members({"a"}, {<<LInt(1)>>})
           \cup {<<LEsc("a\"b"), P(":"), LInt(1)>>}
      [] sh = WithHook ->
           Braces \cup Members({"a"}, {<<LInt(1)>>, <<LStr("1")>>})
      [] sh \in {BoxStr, StrRef} -> {<<LStr("a")>>, <<LEsc("a\"b")>>, <<LInt(1)>>}
      [] sh \in {BorrowedStr, CowStr, OwnedStr} ->
           Braces \cup Members({"name"}, {<<LStr("hello")>>, <<LEsc("a\"b")>>})
      [] sh = OptFlat ->
           Braces \cup Members({"x", "y", "z"}, {<<LInt(1)>>, <<LInt(2)>>})
      [] sh \in {FlatOpt, PlainOpt} ->
           Braces
           \cup Members({"o", "x", "y"},
                        {<<LInt(1)>>, <<LInt(2)>>, <<P("null")>>, <<P("["), P("]")>>})
      [] sh \in {EnumBody, EnumBodyDeny} ->
           {VariantOpen, VariantClose, <<P(",")>>}
           \cup Members({"x", "d", "u"}, {<<LInt(1)>>, <<LInt(2)>>})
      [] sh \in {Leaf, Mid} ->
           Braces \cup Members({"p"}, {<<LInt(1)>>, <<LInt(2)>>})
      [] sh = TopNested ->
           Braces
           \cup Members({"n"}, {<<P("{"), LStr("p"), P(":"), LInt(1), P("}")>>,
                                 <<P("{"), LStr("p"), P(":"), LInt(2), P("}")>>})
           \cup Members({"x", "y"}, {<<LInt(1)>>, <<LInt(2)>>})
           \cup {Member("x", <<LInt(1)>>) \o <<P(",")>>,
                 Member("y", <<LInt(2)>>) \o <<P(",")>>}
      [] sh \in {ArrayI32x2, TupleI32x2, VecU16, ArcSliceU16, SetU16} ->
           {<<P("[")>>, <<P("]")>>, <<P(",")>>, <<LInt(1)>>, <<LInt(2)>>}
      [] sh = Rule ->
           {SymbolObject("z"), RepeatObject(SymbolObject("x")),
            <<P("{"), LStr("SYMBOL"), P(":"), P("{"), LStr("name"), P(":"),
              LStr("z"), P("}"), P("}")>>,
            <<LStr("SYMBOL")>>, <<P("{")>>, <<P("}")>>}
      [] sh \in {MapCowU8, MapStringU16} ->
           Braces \cup Members({"a"}, {<<LInt(1)>>})
           \cup {<<LEsc("a\"b"), P(":"), LInt(1)>>}
      [] OTHER -> {<<Sp(LInt(1))>>, <<P(",")>>, <<Sp(LBad("nope"))>>}

NoRet == [res |-> "none", pos |-> 0, ops |-> <<>>, val |-> NoVal, err |-> NoError]

NoTok == Tok("None", 0, FALSE, "", FALSE, Span(0, 0))

NoSkip ==
    [pc |-> "idle", pos |-> 0, depth |-> 0, open |-> "", close |-> "",
     eof_reads |-> 0]

\* the lookahead of a deserializer: peeked is the Option (empty or one
\* token), requests counts the calls of tokenizer.next_token(), returned is
\* what next() handed out so far, hist the calls made and last the result of
\* the latest one
NoDe ==
    [pc |-> "idle", peeked |-> <<>>, requests |-> 0, returned |-> <<>>,
     hist |-> <<>>, last |-> NoTok]

\* the call on the text so far ended at the end of the input, or returned Ok:
\* more input can change what it does
Viable(pieces, sh) ==
    LET lex == Lexemes(pieces)
        n == IF starts_with_bom(lex) THEN Len(lex) - 1 ELSE Len(lex)
        open_ended(r) == r.res \in {"ok", "hang"} \/ r.pos > n
    IN open_ended(from_str(lex, sh))

(***************************************************************************)
(* The program: a caller writes an input (by hand, or with to_string) and  *)
(* calls from_str or from_slice on it                                      *)
(***************************************************************************)
Init ==
    /\ shape \in RootShapes
    /\ text = <<>>
    /\ original = NoVal
    /\ entry = "none"
    /\ pc = "input"
    /\ ret = NoRet
    /\ offered = NoTok
    /\ sk = NoSkip
    /\ de = NoDe

\* to_string(&v) for a value v of T
Serialize(v) ==
    /\ pc = "input"
    /\ shape \in ToStringShapes
    /\ text = <<>>
    /\ original = NoVal
    /\ LET returned(out) ==
               IF Panicked(out)
               THEN pc' = "panicked" /\ UNCHANGED <<text, original>>
               ELSE text' = <<out>> /\ original' = v /\ UNCHANGED pc
       IN returned(to_string(v, shape))
    /\ UNCHANGED <<shape, entry, ret, offered, sk, de>>

\* the caller writes one more piece of the input
Write(piece) ==
    /\ pc = "input"
    /\ Len(text) < MaxLen
    /\ \/ shape \in WrittenShapes /\ original = NoVal
       \/ original # NoVal /\ Len(text) < 2
       \/ shape \notin (WrittenShapes \cup ToStringShapes)
    /\ Viable(text, shape)
    /\ text' = Append(text, piece)
    /\ UNCHANGED <<shape, original, entry, pc, ret, offered, sk, de>>

FromStr ==
    /\ pc = "input"
    /\ ret' = from_str(Lexemes(text), shape)
    /\ entry' = "from_str"
    /\ pc' = "done"
    /\ UNCHANGED <<shape, text, original, offered, sk, de>>

FromSlice ==
    /\ pc = "input"
    /\ ret' = from_slice(Lexemes(text), shape)
    /\ entry' = "from_slice"
    /\ pc' = "done"
    /\ UNCHANGED <<shape, text, original, offered, sk, de>>

Next ==
    \/ \E v \in RootValues(shape) : Serialize(v)
    \/ \E piece \in Pieces(shape) : Write(piece)
    \/ FromStr
    \/ FromSlice

Spec == Init /\ [][Next]_vars

(***************************************************************************)
(* The same program on the types of the second set                         *)
(***************************************************************************)
InitForms ==
    /\ shape \in FormShapes
    /\ text = <<>>
    /\ original = NoVal
    /\ entry = "none"
    /\ pc = "input"
    /\ ret = NoRet
    /\ offered = NoTok
    /\ sk = NoSkip
    /\ de = NoDe

SpecForms == InitForms /\ [][Next]_vars

\* the same program on the types of the third set
InitMembers ==
    /\ shape \in MemberShapes
    /\ text = <<>>
    /\ original = NoVal
    /\ entry = "none"
    /\ pc = "input"
    /\ ret = NoRet
    /\ offered = NoTok
    /\ sk = NoSkip
    /\ de = NoDe

SpecMembers == InitMembers /\ [][Next]_vars

(***************************************************************************)
(* deserialize_scalar on every number token the tokenizer produces         *)
(***************************************************************************)
ScalarTargets == IntShapes \cup {F32, F64, BoolShape, StringShape}

NumberLexemes ==
    {LInt(n) : n \in IntMin(TRUE, 16)..IntMax(FALSE, 16)}
    \cup {LFloat(n, frac) : n \in (0 - MaxFloat)..MaxFloat, frac \in BOOLEAN}

InitScalar ==
    /\ shape \in ScalarTargets
    /\ text = <<>>
    /\ original = NoVal
    /\ entry = "none"
    /\ pc = "input"
    /\ ret = NoRet
    /\ offered = NoTok
    /\ sk = NoSkip
    /\ de = NoDe

\* deserialize_scalar(wip) with the token of the lexeme l next in the input
DeserializeScalar(l) ==
    LET D == JsonDeserializer_new(<<l>>) IN
    /\ pc = "input"
    /\ text' = <<<<l>>>>
    /\ offered' = peek(D, 1)
    /\ ret' = deserialize_scalar(D, 1, shape)
    /\ entry' = "deserialize_scalar"
    /\ pc' = "done"
    /\ UNCHANGED <<shape, original, sk, de>>

NextScalar == \E l \in NumberLexemes : DeserializeScalar(l)

SpecScalar == InitScalar /\ [][NextScalar]_vars

(***************************************************************************)
(* skip_value, one token request at a time                                 *)
(***************************************************************************)
SkipAlphabet == {P("["), P("]"), P("{"), P("}"), LInt(1)}

SkipTexts == UNION {[1..n -> SkipAlphabet] : n \in 1..MaxSkipLen}

InitSkip ==
    /\ shape = OpaqueShape
    /\ text \in {<<s>> : s \in SkipTexts}
    /\ original = NoVal
    /\ entry = "skip_value"
    /\ pc = "input"
    /\ ret = NoRet
    /\ offered = NoTok
    /\ sk = [NoSkip EXCEPT !.pc = "start", !.pos = 1]
    /\ de = NoDe

\* the first self.next()? and the match on it
SkipFirst ==
    LET D == JsonDeserializer_new(Lexemes(text))
        m == skip_first_step(D, sk.pos)
    IN /\ sk.pc = "start"
       /\ offered' = peek(D, sk.pos)
       /\ sk' = [pc |-> m.pc, pos |-> m.pos, depth |-> m.depth, open |-> m.open,
                 close |-> m.close, eof_reads |-> 0]
       /\ UNCHANGED <<shape, text, original, entry, pc, ret, de>>

\* one iteration of the loop
SkipLoop ==
    LET D == JsonDeserializer_new(Lexemes(text)) IN
    /\ sk.pc = "loop"
    /\ sk.eof_reads < MaxEofReads
    /\ offered' = peek(D, sk.pos)
    /\ sk' = [skip_loop_step(D, sk) EXCEPT
                 !.eof_reads = IF IsEof(D, sk.pos) THEN @ + 1 ELSE @]
    /\ UNCHANGED <<shape, text, original, entry, pc, ret, de>>

\* skip_value returns
SkipReturn ==
    LET D == JsonDeserializer_new(Lexemes(text)) IN
    /\ sk.pc \in {"ok", "err"}
    /\ pc = "input"
    /\ ret' = skip_value(D, 1)
    /\ pc' = "done"
    /\ UNCHANGED <<shape, text, original, entry, offered, sk, de>>

NextSkip == SkipFirst \/ SkipLoop \/ SkipReturn

SpecSkip == InitSkip /\ [][NextSkip]_vars

(***************************************************************************)
(* peek() and next(), one call at a time                                   *)
(***************************************************************************)
\* self.tokenizer.next_token(): the tokenizer hands out its tokens in order
\* and Eof from then on
tokenizer_next_token(D, d) == peek(D, d.requests + 1)

\* peek() asking the tokenizer whatever the buffer holds
JsonDeserializer_peek_refetch(D, d) ==
    LET t == tokenizer_next_token(D, d) IN
    IF t.k = "Error"
    THEN [d EXCEPT !.pc = "failed", !.requests = @ + 1, !.last = t,
                   !.hist = Append(@, "peek")]
    ELSE [d EXCEPT !.peeked = <<t>>, !.requests = @ + 1, !.last = t,
                   !.hist = Append(@, "peek")]

\* peek(): fills the empty buffer from the tokenizer (an error returns
\* through ? before anything is stored) and returns what the buffer holds
JsonDeserializer_peek(D, d) ==
    LET t == tokenizer_next_token(D, d) IN
    IF d.peeked = <<>>
    THEN IF t.k = "Error"
         THEN [d EXCEPT !.pc = "failed", !.requests = @ + 1, !.last = t,
                        !.hist = Append(@, "peek")]
         ELSE [d EXCEPT !.peeked = <<t>>, !.requests = @ + 1, !.last = t,
                        !.hist = Append(@, "peek")]
    ELSE [d EXCEPT !.last = d.peeked[1], !.hist = Append(@, "peek")]

\* next(): takes the buffered token, or asks the tokenizer
JsonDeserializer_next(D, d) ==
    LET t == tokenizer_next_token(D, d) IN
    IF d.peeked # <<>>
    THEN [d EXCEPT !.peeked = <<>>, !.returned = Append(@, d.peeked[1]),
                   !.last = d.peeked[1], !.hist = Append(@, "next")]
    ELSE IF t.k = "Error"
         THEN [d EXCEPT !.pc = "failed", !.requests = @ + 1, !.last = t,
                        !.hist = Append(@, "next")]
         ELSE [d EXCEPT !.requests = @ + 1, !.returned = Append(@, t),
                        !.last = t, !.hist = Append(@, "next")]

PeekAlphabet == {P("["), LInt(1), LStr("a"), LBad("nope")}

PeekTexts == UNION {[1..n -> PeekAlphabet] : n \in 1..MaxPeekLen}

InitPeek ==
    /\ shape = OpaqueShape
    /\ text \in {<<s>> : s \in PeekTexts}
    /\ original = NoVal
    /\ entry = "peek"
    /\ pc = "input"
    /\ ret = NoRet
    /\ offered = NoTok
    /\ sk = NoSkip
    /\ de = [NoDe EXCEPT !.pc = "ready"]

\* a caller peeks; every caller leaves through ? on an error, so a failed
\* deserializer gets no further call
Peek ==
    /\ de.pc = "ready"
    /\ Len(de.hist) < MaxCalls
    /\ de' = JsonDeserializer_peek(JsonDeserializer_new(Lexemes(text)), de)
    /\ UNCHANGED <<shape, text, original, entry, pc, ret, offered, sk>>

\* a caller consumes
NextToken ==
    /\ de.pc = "ready"
    /\ Len(de.hist) < MaxCalls
    /\ de' = JsonDeserializer_next(JsonDeserializer_new(Lexemes(text)), de)
    /\ UNCHANGED <<shape, text, original, entry, pc, ret, offered, sk>>

NextPeek == Peek \/ NextToken

SpecPeek == InitPeek /\ [][NextPeek]_vars

(***************************************************************************)
(* Properties                                                              *)
(***************************************************************************)
Called == pc = "done" /\ entry \in {"from_str", "from_slice"}

\* the bytes the deserializer of the call was created on
Input ==
    IF entry = "from_str" /\ starts_with_bom(Lexemes(text))
    THEN Tail(Lexemes(text))
    ELSE Lexemes(text)

\* what deserialize_into returned to from_slice_inner
RootResult == deserialize_into(JsonDeserializer_new(Input), 1, shape)

\* the entry point of the call, on another text
Call(pieces) ==
    IF entry = "from_str" THEN from_str(Lexemes(pieces), shape)
    ELSE from_slice(Lexemes(pieces), shape)

\* the types named by the round-trip property
RoundTripShapes ==
    IntShapes \cup
    {BoolShape, StringShape, HostPort, ValueSpan, E4, VecU8, OptU8, BoxU8,
     ArcHostPort, RcString, Mixed}

\* C1: from_str applied to to_string(v) succeeds and returns a value equal
\* to v, for v of a type built from named-field structs, Vec, Option,
\* strings, booleans, integers, externally tagged enums and Box/Arc/Rc.
C1_RoundTrip ==
    (pc = "done" /\ entry = "from_str" /\ original # NoVal /\ Len(text) = 1
        /\ shape \in RoundTripShapes)
    => (ret.res = "ok" /\ ret.val = original)

\* C2: when the input ends while skip_value is inside an unbalanced '{' or
\* '[', the call returns an error instead of requesting further tokens:
\* once the loop has read Eof it is over, with an error.
C2_SkipReturnsAtEof == sk.eof_reads > 0 => sk.pc = "err"

FramePushes ==
    {"begin_field", "begin_nth_field", "begin_some", "begin_inner",
     "begin_smart_ptr", "begin_list_item", "begin_set_item", "begin_key",
     "begin_value", "begin_custom_deserialization"}

\* frames open after the first n builder calls of ops
FrameDepth(ops, n) ==
    Cardinality({i \in 1..n : ops[i] \in FramePushes})
    - Cardinality({i \in 1..n : ops[i] = "end"})

\* C3: when deserialize_into returns Ok, the end() calls it issued are as
\* many as its frame-pushing calls, and at no point of the call are there
\* more end() calls than frame pushes.
C3_FramesBalanced ==
    Called
    => LET r == RootResult IN
       r.res = "ok"
       => /\ FrameDepth(r.ops, Len(r.ops)) = 0
          /\ \A n \in 0..Len(r.ops) : FrameDepth(r.ops, n) >= 0

\* a struct with a flattened Option<struct> was read with the Some frame, the
\* field frames and the frames of the flattened struct's fields
C3_Witness ==
    /\ Called
    /\ shape = OuterOpt
    /\ ret.res = "ok"
    /\ \E i \in 1..Len(ret.ops) : ret.ops[i] = "begin_some"
    /\ Cardinality({i \in 1..Len(ret.ops) : ret.ops[i] = "end"}) >= 4

\* C4: when the root value is deserialized and something other than
\* whitespace follows it, the call fails with UnexpectedToken{expected: "end
\* of input"} and a span at the first trailing item; the call succeeds only
\* when the token after the root value is EOF.
C4_TrailingInput ==
    Called
    => LET r == RootResult IN
       r.res = "ok"
       => IF r.pos <= Len(Input)
          THEN /\ ret.res = "err"
               /\ ret.err.kind = "UnexpectedToken"
               /\ ret.err.what = "end of input"
               /\ ret.err.span # None
               /\ ret.err.span[1].start = LexStart(Input, r.pos)
          ELSE ret.res = "err" => ret.err.kind = "Reflect"

\* C5: every Err of from_str has source_code = Some(the input after removal
\* of a leading BOM), every Err of from_slice has source_code = None.
C5_SourceCode ==
    (Called /\ ret.res = "err")
    => IF entry = "from_str" THEN ret.err.source_code = Some(Input)
       ELSE ret.err.source_code = None

\* C6: every error of from_str and from_slice has span = Some(..) or, for
\* MissingField, the labeled spans object_start and object_end.
C6_ErrorLocated ==
    (Called /\ ret.res = "err")
    => \/ ret.err.span # None
       \/ /\ ret.err.kind = "MissingField"
          /\ ret.err.object_start # None
          /\ ret.err.object_end # None

\* C7: an integer token I64(n), U64(n), I128(n) or U128(n) offered to an
\* integer target sets the builder to exactly n when n is in the target's
\* range, and fails with NumberOutOfRange otherwise.
C7_IntegerFit ==
    (pc = "done" /\ entry = "deserialize_scalar" /\ shape \in IntShapes
        /\ offered.k \in {"I64", "U64", "I128", "U128"})
    => IF InRange(offered.n, shape.signed, shape.size)
       THEN ret.res = "ok" /\ ret.val = IntVal(offered.n)
       ELSE ret.res = "err" /\ ret.err.kind = "NumberOutOfRange"

\* C8: an F64 token offered to an integer target fails when its fractional
\* part is not zero; otherwise its value is stored when it is in the target's
\* range and the call fails with NumberOutOfRange when it is not.
C8_FloatToInteger ==
    (pc = "done" /\ entry = "deserialize_scalar" /\ shape \in IntShapes
        /\ offered.k = "F64")
    => IF offered.frac THEN ret.res = "err"
       ELSE IF InRange(offered.n, shape.signed, shape.size)
       THEN ret.res = "ok" /\ ret.val = IntVal(offered.n)
       ELSE ret.res = "err" /\ ret.err.kind = "NumberOutOfRange"

\* a piece `"key": value`
IsMember(piece) == Len(piece) >= 3 /\ piece[1].k = "str" /\ piece[2].k = ":"

\* '{' and '[' less '}' and ']' among the lexemes
OpenBrackets(lex) ==
    Cardinality({i \in 1..Len(lex) : lex[i].k \in {"{", "["}})
    - Cardinality({i \in 1..Len(lex) : lex[i].k \in {"}", "]"}})

\* a member whose value is one whole JSON value
IsWholeMember(piece) ==
    /\ IsMember(piece)
    /\ piece[3].k \in {"str", "int", "float", "null", "true", "false", "[", "{"}
    /\ OpenBrackets(piece) = 0

IsComma(piece) == piece = <<P(",")>>

\* pieces[1..n] is '{' and whole members, each followed by at most one ','
IsObjectPrefix(pieces, n) ==
    /\ n >= 1
    /\ n <= Len(pieces)
    /\ pieces[1] = <<P("{")>>
    /\ \A i \in 2..n :
          \/ IsWholeMember(pieces[i])
          \/ IsComma(pieces[i]) /\ i > 2 /\ IsWholeMember(pieces[i - 1])

\* an object: '{', members, '}'
IsObject(pieces) ==
    /\ Len(pieces) >= 2
    /\ IsObjectPrefix(pieces, Len(pieces) - 1)
    /\ pieces[Len(pieces)] = <<P("}")>>

\* the keys of the members of the text
Keys(pieces) == {pieces[i][1].s : i \in {j \in 1..Len(pieces) : IsMember(pieces[j])}}

\* the last member with the key
LastMember(pieces, key) ==
    CHOOSE i \in 1..Len(pieces) :
        /\ IsMember(pieces[i]) /\ pieces[i][1].s = key
        /\ \A j \in (i + 1)..Len(pieces) : ~(IsMember(pieces[j]) /\ pieces[j][1].s = key)

\* the value a lexeme denotes for a field of shape sh
Denoted(l, sh) ==
    IF l.k = "int" THEN IntVal(l.n)
    ELSE IF sh.k = "enum" THEN VariantVal(l.s, <<>>)
    ELSE StrVal(l.s, FALSE)

\* what the claim calls a field with a default
Defaulted(sh, field) ==
    field.default \/ field.default_fn \/ (sh.default /\ HasDefault(field.shape))

SimpleStructs == {HostPort, WithDefaults, StructDefault}

\* C9: in a struct without flatten fields, once the object is closed the
\* unset fields are taken in declared order: one that has a default is set to
\* it, the first that has none fails the call with MissingField{its name,
\* the span of '{', the span of '}'}; a field set from the input keeps the
\* value the input gave.
C9_MissingFields ==
    (Called /\ shape \in SimpleStructs /\ IsObject(text)
        /\ (ret.res = "ok" \/ ret.err.kind = "MissingField"))
    => LET fields == shape.fields
           missing == {i \in 1..Len(fields) :
                          fields[i].name \notin Keys(text)
                          /\ ~Defaulted(shape, fields[i])}
           first == CHOOSE i \in missing : \A j \in missing : i <= j
       IN IF missing # {}
          THEN /\ ret.res = "err"
               /\ ret.err.kind = "MissingField"
               /\ ret.err.what = fields[first].name
               /\ ret.err.span = None
               /\ ret.err.object_start = Some(Span(0, 1))
               /\ ret.err.object_end = Some(Span(TextLen(Input) - 1, 1))
          ELSE /\ ret.res = "ok"
               /\ \A i \in 1..Len(fields) :
                     ret.val.f[i] =
                        IF fields[i].name \in Keys(text)
                        THEN Denoted(text[LastMember(text, fields[i].name)][3],
                                     fields[i].shape)
                        ELSE IF fields[i].default_fn THEN DefaultFnVal
                        ELSE DefaultOf(fields[i].shape)

\* '{"host":"localhost"}' against { host: String, port: u16 }
C9_Witness ==
    /\ Called
    /\ shape = HostPort
    /\ text = <<<<P("{")>>, Member("host", <<LStr("localhost")>>), <<P("}")>>>>
    /\ ret.res = "err"
    /\ ret.err.kind = "MissingField"
    /\ ret.err.what = "port"
    /\ ret.err.object_start = Some(Span(0, 1))
    /\ ret.err.object_end = Some(Span(19, 1))

\* the known name with the highest similarity of at least 0.6, the earliest
\* of them on a tie
BestSuggestion(key, names) ==
    LET close == {i \in 1..Len(names) : jaro_winkler(key, names[i]) >= 600}
        best == CHOOSE i \in close :
                   \A j \in close :
                      \/ jaro_winkler(key, names[j]) < jaro_winkler(key, names[i])
                      \/ jaro_winkler(key, names[j]) = jaro_winkler(key, names[i])
                         /\ i <= j
    IN IF close = {} THEN None ELSE Some(names[best])

\* after pieces[1..n] the deserializer of the root struct is where a key or
\* '}' is expected
AtKey(pieces, n) ==
    LET r == Call(SubSeq(pieces, 1, n)) IN
    /\ IsObjectPrefix(pieces, n)
    /\ r.res = "err"
    /\ r.err.kind = "UnexpectedToken"
    /\ r.err.what = "field name or '}'"
    /\ r.pos > Len(Lexemes(SubSeq(pieces, 1, n)))

\* the text less piece i and the ',' that follows it
Without(pieces, i) ==
    LET n == IF i < Len(pieces) /\ IsComma(pieces[i + 1]) THEN i + 1 ELSE i IN
    SubSeq(pieces, 1, i - 1) \o SubSeq(pieces, n + 1, Len(pieces))

\* C10: in a struct without flatten fields, a key that is no field name
\* fails the call when the shape denies unknown fields, with
\* UnknownField{the key, the field names in declared order, the suggestion}
\* at the span of the key; otherwise the member is skipped: the call does
\* what it does on the text without that member.
C10_UnknownKey ==
    (Called /\ shape.k = "struct" /\ ~has_flatten_fields(shape)
        /\ ~is_spanned_shape(shape))
    => \A i \in 2..Len(text) :
          (IsMember(text[i]) /\ FieldIndex(shape.fields, text[i][1].s) = 0
              /\ AtKey(text, i - 1))
          => IF shape.deny
             THEN /\ ret.res = "err"
                  /\ ret.err.kind = "UnknownField"
                  /\ ret.err.what = text[i][1].s
                  /\ ret.err.expected = FieldNames(shape.fields)
                  /\ ret.err.suggestion =
                        BestSuggestion(text[i][1].s, FieldNames(shape.fields))
                  /\ ret.err.span =
                        Some(Span(TextLen(Lexemes(SubSeq(text, 1, i - 1))),
                                  LexLen(text[i][1])))
             ELSE IsWholeMember(text[i])
                  => LET r == Call(Without(text, i)) IN
                     /\ ret.res = r.res
                     /\ ret.val = r.val
                     /\ ret.ops = r.ops
                     /\ ret.err.kind = r.err.kind
                     /\ ret.err.what = r.err.what

\* two names tie for the highest similarity: the earlier is suggested
C10_Witness ==
    /\ Called
    /\ shape = DenyTie
    /\ ret.res = "err"
    /\ ret.err.kind = "UnknownField"
    /\ ret.err.what = "x2"
    /\ ret.err.suggestion = Some("xa")

\* the types with a string target: a struct with the field `name`, a map
StringTargetShapes ==
    {BorrowedStr, CowStr, OwnedStr, MapRefU8, MapCowU8, MapStringU16}

\* the string target of such a type: the field `name` of the struct, the key
\* of the map
StringTarget(sh) == IF sh.k = "map" THEN sh.key ELSE sh.fields[1].shape

\* the lexeme of the member that is read into the target
TargetLexeme(sh, piece) == IF sh.k = "map" THEN piece[1] ELSE piece[3]

\* the string the call stored in the target
StoredString(sh, val) == IF sh.k = "map" THEN val.v[1][1] ELSE val.f[1]

\* C11: a string token read into a &str target (struct field or map key) is
\* stored as a borrow when it has no escapes and fails with InvalidValue
\* (about escape sequences) when it has; into a Cow<str> target it is stored
\* Borrowed when it has no escapes and Owned with the decoded text when it
\* has; into a String target it is stored with the decoded text either way.
C11_BorrowStatus ==
    (Called /\ shape \in StringTargetShapes /\ Len(text) = 3 /\ IsObject(text))
    => LET l == TargetLexeme(shape, text[2])
           target == StringTarget(shape)
       IN IF target = StrRef
          THEN IF l.esc
               THEN /\ ret.res = "err"
                    /\ ret.err.kind = "InvalidValue"
                    /\ ret.err.what = "cannot borrow &str"
               ELSE /\ ret.res = "ok"
                    /\ StoredString(shape, ret.val) = StrVal(l.s, TRUE)
          ELSE IF target = CowShape
          THEN /\ ret.res = "ok"
               /\ StoredString(shape, ret.val) = StrVal(l.s, ~l.esc)
          ELSE /\ ret.res = "ok"
               /\ StoredString(shape, ret.val) = StrVal(l.s, FALSE)

\* '{"a\"b":1}' read into HashMap<Cow<str>, u8>: the key is Cow::Owned
C11_Witness ==
    /\ Called
    /\ shape = MapCowU8
    /\ text = <<<<P("{")>>, <<LEsc("a\"b"), P(":"), LInt(1)>>, <<P("}")>>>>
    /\ ret.res = "ok"
    /\ ret.val = MapVal(<<<<StrVal("a\"b", FALSE), IntVal(1)>>>>)

\* the wire form of the fields' values: each as it is serialized on its own
ValueForms(variant, v) ==
    [i \in 1..Len(variant.fields) |-> to_string(v.f[i], variant.fields[i].shape)]

\* `"name": value` for every field
MemberForms(variant, v) ==
    [i \in 1..Len(variant.fields) |->
        <<LStr(variant.fields[i].name), P(":")>> \o ValueForms(variant, v)[i]]

\* the content of a variant: the inner value of a single-field tuple
\* variant, an array for a multi-field tuple variant, an object for a struct
\* variant
ContentForm(variant, v) ==
    IF variant.kind = "Tuple" /\ Len(variant.fields) = 1
    THEN ValueForms(variant, v)[1]
    ELSE IF variant.kind = "Tuple"
    THEN <<P("[")>> \o JoinComma(ValueForms(variant, v)) \o <<P("]")>>
    ELSE <<P("{")>> \o JoinComma(MemberForms(variant, v)) \o <<P("}")>>

WireForm(v, sh) ==
    LET variant == sh.variants[VariantIndex(sh.variants, v.name)]
        no_fields == variant.fields = <<>>
    IN IF sh.untagged
       THEN (IF no_fields THEN <<P("null")>> ELSE ContentForm(variant, v))
       ELSE IF sh.tag # None /\ sh.content # None
       THEN <<P("{"), LStr(sh.tag[1]), P(":"), LStr(v.name)>>
            \o (IF no_fields THEN <<>>
                ELSE <<P(","), LStr(sh.content[1]), P(":")>> \o ContentForm(variant, v))
            \o <<P("}")>>
       ELSE IF sh.tag # None
       THEN <<P("{")>>
            \o JoinComma(<<<<LStr(sh.tag[1]), P(":"), LStr(v.name)>>>>
                         \o MemberForms(variant, v))
            \o <<P("}")>>
       ELSE IF no_fields THEN <<LStr(v.name)>>
       ELSE <<P("{"), LStr(v.name), P(":")>> \o ContentForm(variant, v) \o <<P("}")>>

\* C12: to_string of an enum value writes, by the shape's attributes in this
\* priority: untagged, the content only (null without fields); tag and
\* content, {tag: "Name", content: content} without the content member when
\* the variant has no fields; tag only, {tag: "Name", fields as members};
\* otherwise "Name" without fields and {"Name": content} with fields.
C12_EnumWireForm ==
    (original # NoVal /\ shape.k = "enum" /\ text # <<>>)
    => text[1] = WireForm(original, shape)

\* Pair(0, true) of the enum that is untagged and has a tag and a content
\* key is written as [0,true]
C12_Witness ==
    /\ shape = E4UntaggedTag
    /\ original = VariantVal("Pair", <<IntVal(0), BoolVal(TRUE)>>)
    /\ text = <<<<P("["), LInt(0), P(","), P("true"), P("]")>>>>

\* C13: for an enum with type_tag = "type", an object with a member "type"
\* is read as the variant that member names, the other members of the
\* object being the variant's fields, also inside a field of another
\* variant.
C13_TypeTag ==
    (Called /\ shape = Rule /\ Len(text) = 1)
    => /\ text[1] = SymbolObject("z")
          => /\ ret.res = "ok"
             /\ ret.val = VariantVal("SYMBOL", <<StrVal("z", FALSE)>>)
       /\ text[1] = RepeatObject(SymbolObject("x"))
          => /\ ret.res = "ok"
             /\ ret.val =
                   VariantVal("REPEAT",
                      <<PtrVal(VariantVal("SYMBOL", <<StrVal("x", FALSE)>>))>>)

TaggedShapes == {E4Adjacent, E4Internal, E4Untagged}

\* C14: for an enum with tag and content, with tag only, or untagged,
\* from_str applied to to_string(v) returns v.
C14_TaggedRoundTrip ==
    (pc = "done" /\ entry = "from_str" /\ original # NoVal /\ Len(text) = 1
        /\ shape \in TaggedShapes)
    => (ret.res = "ok" /\ ret.val = original)

\* C15: a tuple struct that is not transparent is written by to_string as
\* the array of its fields in field order, and from_str reads that array
\* back to an equal value.
C15_TupleStructRoundTrip ==
    (original # NoVal /\ shape = PairStruct /\ text # <<>>)
    => /\ text[1] = <<P("[")>> \o to_string(original.f[1], U8) \o <<P(",")>>
                      \o to_string(original.f[2], BoolShape) \o <<P("]")>>
       /\ (pc = "done" /\ entry = "from_str" /\ Len(text) = 1)
          => (ret.res = "ok" /\ ret.val = original)

\* C16: a map with integer keys, written by to_string with the keys as
\* quoted decimals, is read back by from_str to an equal map: a key string
\* that is the decimal form of an integer in the key type's range gives that
\* integer as the key.
C16_IntegerKeys ==
    (pc = "done" /\ entry = "from_str" /\ original # NoVal /\ Len(text) = 1
        /\ shape = MapU8U8)
    => (ret.res = "ok" /\ ret.val = original)

\* C17: in a struct with a field that is a flattened Option<T>, when none of
\* T's keys is in the input object the field is None and the call succeeds;
\* when all of T's required keys are there the field is Some(T) with the
\* values given for them; the struct's other field keeps its value.
C17_FlattenedOption ==
    (Called /\ shape \in {OuterOpt, OptFlat} /\ IsObject(text)
        /\ shape.fields[1].name \in Keys(text)
        /\ \A i \in 1..Len(text) : IsMember(text[i]) => text[i][3].k = "int")
    => LET given(key) == IntVal(text[LastMember(text, key)][3].n)
           own == given(shape.fields[1].name)
       IN /\ Keys(text) \cap {"x", "y"} = {}
             => (ret.res = "ok" /\ ret.val = StructVal(<<own, NoneVal>>))
          /\ {"x", "y"} \subseteq Keys(text)
             => /\ ret.res = "ok"
                /\ ret.val =
                      StructVal(<<own, SomeVal(StructVal(<<given("x"), given("y")>>))>>)

\* '{"y":2 "x":1 "z":2}' read into { z: u8, opt: Option<{x, y}> }
C17_Witness ==
    /\ Called
    /\ shape = OptFlat
    /\ text = <<<<P("{")>>, Member("y", <<LInt(2)>>), Member("x", <<LInt(1)>>),
                Member("z", <<LInt(2)>>), <<P("}")>>>>
    /\ ret.res = "ok"
    /\ ret.val = StructVal(<<IntVal(2), SomeVal(StructVal(<<IntVal(1), IntVal(2)>>))>>)

\* C18: a fixed array of length 2 and a tuple of length 2 are read by the
\* same rule: two elements separated by a comma are accepted, a third
\* element fails with InvalidValue 'Too many elements in array, maximum 2
\* elements', and fewer than two elements fail.
C18_FixedLength ==
    (Called /\ shape \in {ArrayI32x2, TupleI32x2}
        /\ \A i \in 1..Len(text) : Len(text[i]) = 1)
    => LET lex == Input
           is_element(l) == l.k = "int"
           two == /\ Len(lex) >= 4
                  /\ lex[1] = P("[") /\ is_element(lex[2])
                  /\ lex[3] = P(",") /\ is_element(lex[4])
       IN /\ (two /\ Len(lex) = 5 /\ lex[5] = P("]"))
             => /\ ret.res = "ok"
                /\ ret.val = IF shape.k = "array"
                             THEN ListVal(<<IntVal(lex[2].n), IntVal(lex[4].n)>>)
                             ELSE StructVal(<<IntVal(lex[2].n), IntVal(lex[4].n)>>)
          /\ (two /\ Len(lex) = 5 /\ lex[5] = P(","))
             => /\ ret.res = "err"
                /\ ret.err.kind = "InvalidValue"
                /\ ret.err.what = "Too many elements in array, maximum 2 elements"
          /\ (Len(lex) = 3 /\ lex[1] = P("[") /\ is_element(lex[2]) /\ lex[3] = P("]"))
             => ret.res = "err"
          /\ lex = <<P("["), P("]")>> => ret.res = "err"

\* the text of the call starts with the byte order mark
BomCall == Called /\ entry = "from_str" /\ starts_with_bom(Lexemes(text))

C20_NeverAborts ==
    /\ pc # "panicked"
    /\ (original # NoVal /\ shape = Node)
       => text[1] = <<P("{"), LStr("id"), P(":"), LInt(original.f[1].n), P(","),
                      LStr("parent"), P(":"), P("null"), P("}")>>

\* the keys of the members of the text are pairwise distinct
DistinctKeys(pieces) ==
    \A i, j \in 1..Len(pieces) :
        (IsMember(pieces[i]) /\ IsMember(pieces[j]) /\ pieces[i][1].s = pieces[j][1].s)
        => i = j

\* the value of the member with the key, an integer
MemberInt(pieces, key) == IntVal(pieces[LastMember(pieces, key)][3].n)

\* C21: in pass 2 of the flatten driver each deferred value is replayed from
\* the byte of the input where its first token begins, so every member is
\* read with its own value: for the fields of a struct with a flattened
\* field, and for a struct with a flattened field that is itself the value
\* of a deferred member ('{"n":{"p":2}}' gives n.leaf.p = 2).
C21_ReplayOrigin ==
    /\ (Called /\ shape = OptFlat /\ IsObject(text) /\ DistinctKeys(text)
           /\ Keys(text) = {"x", "y", "z"})
       => /\ ret.res = "ok"
          /\ ret.val = StructVal(<<MemberInt(text, "z"),
                           SomeVal(StructVal(<<MemberInt(text, "x"),
                                               MemberInt(text, "y")>>))>>)
    /\ (Called /\ shape = TopNested /\ IsObject(text) /\ Keys(text) = {"n"}
           /\ Len(text) = 3)
       => /\ ret.res = "ok"
          /\ ret.val = StructVal(<<StructVal(<<StructVal(<<IntVal(text[2][6].n)>>)>>),
                                   NoneVal>>)

\* the members of the text whose value is not an integer
Malformed(pieces) ==
    {i \in 1..Len(pieces) : IsMember(pieces[i]) /\ pieces[i][3].k # "int"}

\* the byte of the input at which lexeme j of piece i begins
ByteOf(pieces, i, j) ==
    LexStart(Lexemes(pieces), Len(Lexemes(SubSeq(pieces, 1, i - 1))) + j)

\* C22: an error raised while a deferred value is replayed has the span of
\* the offending token in the input of the call, the span the same text
\* gets for the struct with the same fields and nothing flattened
\* ('{"x":[]}': the '[' at byte 5).
C22_ReplaySpan ==
    (Called /\ entry = "from_str" /\ shape = FlatOpt /\ IsObject(text)
        /\ DistinctKeys(text)
        /\ \E i \in 1..Len(text) : Malformed(text) = {i} /\ text[i][3].k = "[")
    => LET i == CHOOSE i \in 1..Len(text) : i \in Malformed(text) IN
       /\ ret.res = "err"
       /\ ret.err.span = Some(Span(ByteOf(text, i, 3), 1))
       /\ ret.err.span = from_str(Lexemes(text), PlainOpt).err.span

\* the value lexeme of the member with the key
MemberLexeme(pieces, key) == pieces[LastMember(pieces, key)][3]

\* C23: in a struct with a flattened field, a member whose target field is
\* an Option<u8> leaves it None when the value is null and makes it Some of
\* the value otherwise, as in the struct with the same fields and nothing
\* flattened.
C23_FlattenNullOption ==
    (Called /\ shape = FlatOpt /\ IsObject(text) /\ DistinctKeys(text)
        /\ Keys(text) = {"o", "x", "y"}
        /\ Malformed(text) \subseteq {LastMember(text, "o")}
        /\ MemberLexeme(text, "o").k \in {"int", "null"})
    => /\ ret.res = "ok"
       /\ ret.val.f[1] = IF MemberLexeme(text, "o").k = "null" THEN NoneVal
                         ELSE SomeVal(MemberInt(text, "o"))
       /\ ret.val.f[1] = from_str(Lexemes(text), PlainOpt).val.f[1]

\* the fields that must have a key in the input: no default, not an Option,
\* those of a flattened inner struct included
RequiredKeys(sh) ==
    IF sh = Outer THEN {"x", "y", "z"} ELSE IF sh = FlatOpt THEN {"x", "y"} ELSE {}

\* C24: in a struct with a flattened field, a required field with no key in
\* the input, a direct field ('z' of Outer) or a field of the flattened
\* inner struct ('x', 'y'), makes the call fail with MissingField naming a
\* missing field.
C24_FlattenMissingField ==
    (Called /\ shape \in {Outer, FlatOpt} /\ IsObject(text) /\ DistinctKeys(text)
        /\ Malformed(text) = {}
        /\ Keys(text) \subseteq {"o", "x", "y", "z"}
        /\ RequiredKeys(shape) \ Keys(text) # {})
    => /\ ret.res = "err"
       /\ ret.err.kind = "MissingField"
       /\ ret.err.what \in RequiredKeys(shape) \ Keys(text)

\* the object between VariantOpen and VariantClose, as a text of its own
VariantBody(pieces) ==
    <<<<P("{")>>>> \o SubSeq(pieces, 2, Len(pieces) - 1) \o <<<<P("}")>>>>

\* a struct variant written as '{"A":{' members '}}'
IsVariantObject(pieces) ==
    /\ Len(pieces) >= 2
    /\ pieces[1] = VariantOpen
    /\ pieces[Len(pieces)] = VariantClose
    /\ IsObject(VariantBody(pieces))

\* C25: the body of a struct variant is read by the rules of a struct
\* without flattened fields: the same text read as the struct with the
\* variant's fields (and the enum's deny_unknown_fields) gives the same
\* fields, or the same MissingField or UnknownField error.
C25_VariantBody ==
    (Called /\ entry = "from_str" /\ shape \in {EnumBody, EnumBodyDeny}
        /\ IsVariantObject(text))
    => LET as_struct == from_str(Lexemes(VariantBody(text)),
                                 IF shape.deny THEN BodyDeny ELSE Body)
       IN /\ ret.res = as_struct.res
          /\ ret.res = "ok" => ret.val = VariantVal("A", as_struct.val.f)
          /\ ret.res = "err" => /\ ret.err.kind = as_struct.err.kind
                                /\ ret.err.what = as_struct.err.what

\* two whole members of an object, or two elements of an array, with no ','
\* between them
MissingComma(pieces) ==
    \E i \in 1..(Len(pieces) - 1) :
        \/ IsWholeMember(pieces[i]) /\ IsWholeMember(pieces[i + 1])
        \/ pieces[i][1].k = "int" /\ pieces[i + 1][1].k = "int"

\* a ',' directly before the closing '}' or ']'
TrailingComma(pieces) ==
    \E i \in 1..(Len(pieces) - 1) :
        IsComma(pieces[i]) /\ pieces[i + 1] \in {<<P("}")>>, <<P("]")>>}

\* C26: only the separator grammar of RFC 8259 is accepted: an object of a
\* struct or map and an array of a list or set with two members or elements
\* not separated by ',' or with a ',' before the closing bracket is
\* rejected, and Vec<u16> and Arc<[u16]> accept the same texts.
C26_SeparatorGrammar ==
    (Called /\ shape \in {PlainOpt, MapStringU16, VecU16, SetU16, ArcSliceU16})
    => /\ (MissingComma(text) \/ TrailingComma(text)) => ret.res # "ok"
       /\ shape = VecU16
          => (ret.res = "ok") = (from_str(Lexemes(text), ArcSliceU16).res = "ok")

\* member i of the text has a later member with the same key
HasLater(pieces, i) ==
    /\ IsMember(pieces[i])
    /\ \E j \in (i + 1)..Len(pieces) :
          IsMember(pieces[j]) /\ pieces[j][1].s = pieces[i][1].s

\* the text without the members that have a later member with the same key
\* (and without the ',' that follows each of them)
LastOnly(pieces) ==
    LET I == {i \in 1..Len(pieces) :
                /\ ~HasLater(pieces, i)
                /\ ~(i > 1 /\ IsComma(pieces[i]) /\ HasLater(pieces, i - 1))}
        nth(k) == CHOOSE i \in I : Cardinality({j \in I : j < i}) = k - 1
    IN [k \in 1..Cardinality(I) |-> pieces[nth(k)]]

\* the value the call stored for the key, in the structs Leaf, Mid, OptFlat
StoredFor(sh, val, key) ==
    IF sh = Leaf THEN val.f[1]
    ELSE IF sh = Mid THEN val.f[1].f[1]
    ELSE IF key = "z" THEN val.f[1]
    ELSE IF key = "x" THEN val.f[2].v.f[1]
    ELSE val.f[2].v.f[2]

\* C27: a known key that occurs more than once raises no DuplicateKey error;
\* the call returns what it returns on the text with only the last
\* occurrence of every key, and on success every field has the value of its
\* key's last occurrence; without flattened fields (Leaf) and with them
\* (Mid, OptFlat).
C27_LastWins ==
    (Called /\ shape \in {Leaf, Mid, OptFlat} /\ IsObject(text))
    => /\ ret.err.kind # "DuplicateKey"
       /\ ret.res = Call(LastOnly(text)).res
       /\ ret.val = Call(LastOnly(text)).val
       /\ ret.res = "ok"
          => \A key \in Keys(text) :
                StoredFor(shape, ret.val, key) = MemberInt(text, key)

\* '{"p":1,"p":2}' read into Mid: leaf.p = 2
C27_Witness ==
    /\ Called
    /\ shape = Mid
    /\ text = <<<<P("{")>>, Member("p", <<LInt(1)>>), <<P(",")>>,
                Member("p", <<LInt(2)>>), <<P("}")>>>>
    /\ ret.res = "ok"
    /\ ret.val = StructVal(<<StructVal(<<IntVal(2)>>)>>)

\* C28: a numeric token of any kind, F64, I64, U64, I128 or U128, offered to
\* an f32 or f64 target is stored as that number; none makes
\* deserialize_scalar fail.
C28_FloatAcceptsNumbers ==
    (pc = "done" /\ entry = "deserialize_scalar" /\ shape \in {F32, F64}
        /\ offered.k \in {"F64", "I64", "U64", "I128", "U128"})
    => /\ ret.res = "ok"
       /\ ret.val = FloatVal(offered.n, offered.frac)

\* C29: the lookahead never changes the consumed token sequence.  At most
\* one token is buffered; every tokenizer request is accounted for by a
\* token handed out by next(), the buffered token or the error that ended
\* the run, so a peek() on a full buffer requests nothing; what next() handed
\* out so far is the tokenizer's token sequence from its start; a peek()
\* after a peek() returns the same token; the next() after a peek() returns
\* the peeked token and empties the buffer.
LookaheadInvariant ==
    LET D == JsonDeserializer_new(Lexemes(text)) IN
    de.pc # "idle"
    => /\ Len(de.peeked) <= 1
       /\ de.requests = Len(de.returned) + Len(de.peeked)
                           + (IF de.pc = "failed" THEN 1 ELSE 0)
       /\ \A i \in 1..Len(de.returned) : de.returned[i] = peek(D, i)
       /\ de.peeked # <<>> => de.peeked[1] = peek(D, Len(de.returned) + 1)

LookaheadStep ==
    (de.pc = "ready" /\ de.hist # <<>> /\ de.hist[Len(de.hist)] = "peek"
        /\ Len(de'.hist) = Len(de.hist) + 1)
    => /\ de'.last = de.last
       /\ de'.requests = de.requests
       /\ de'.hist[Len(de'.hist)] = "peek"
          => de'.peeked = <<de.last>> /\ de'.returned = de.returned
       /\ de'.hist[Len(de'.hist)] = "next"
          => de'.peeked = <<>> /\ de'.returned = Append(de.returned, de.last)

C29_Lookahead == [](LookaheadInvariant) /\ [][LookaheadStep]_vars

C29_Witness ==
    /\ de.hist = <<"peek", "peek", "next", "next", "peek">>
    /\ Len(de.returned) = 2
    /\ de.returned[2].k # "Eof"
    /\ de.peeked # <<>>
    /\ de.requests = 3

\* a member written together with the ',' after it, as two pieces
SplitPiece(piece) ==
    IF Len(piece) > 3 /\ piece[Len(piece)] = P(",")
       /\ IsWholeMember(SubSeq(piece, 1, Len(piece) - 1))
    THEN <<SubSeq(piece, 1, Len(piece) - 1), <<P(",")>>>>
    ELSE <<piece>>

RECURSIVE Split(_)
Split(pieces) ==
    IF pieces = <<>> THEN <<>>
    ELSE SplitPiece(Head(pieces)) \o Split(Tail(pieces))

\* '{', members with exactly one ',' between two of them, '}'
IsStrictObject(pieces) ==
    /\ IsObject(pieces)
    /\ \A i \in 2..(Len(pieces) - 1) :
          IsComma(pieces[i]) <=> IsWholeMember(pieces[i - 1]) /\ i % 2 = 1
    /\ ~IsComma(pieces[Len(pieces) - 1])

\* the members of a strict object, in input order
MembersOf(pieces) == [i \in 1..(Len(pieces) \div 2) |-> pieces[2 * i]]

\* the object whose members are ms in the order perm
RECURSIVE Reordered(_, _, _)
Reordered(ms, perm, i) ==
    IF i > Len(ms) THEN <<<<P("}")>>>>
    ELSE (IF i = 1 THEN <<<<P("{")>>>> ELSE <<<<P(",")>>>>)
         \o <<ms[perm[i]]>> \o Reordered(ms, perm, i + 1)

Orders(pieces) ==
    {Reordered(MembersOf(pieces), perm, 1) :
        perm \in Permutations(1..Len(MembersOf(pieces)))}

\* C30: for a struct shape, with or without flatten fields, and an object
\* with pairwise distinct keys, every order of the members that is
\* deserialized successfully gives the value the input order gives.
C30_OrderIndependent ==
    (Called /\ shape \in {Leaf, Mid, PlainOpt, Outer, OptFlat, FlatOpt, TopNested}
        /\ IsStrictObject(Split(text)) /\ DistinctKeys(Split(text))
        /\ ret.res = "ok")
    => \A o \in Orders(Split(text)) :
          Call(o).res = "ok" => Call(o).val = ret.val

====
